---- MODULE Spec2Model ----
(***************************************************************************)
(* Churn analysis of subscription contracts (edelweiss-churn).             *)
(*                                                                         *)
(* The dataset df is the prepared contract table of churn_auswerten_v2.    *)
(* Dates are day numbers counted from 2020-01-01 (day 0) on the Gregorian  *)
(* calendar; pandas' NaT (a missing or unparseable date) is the value NaT. *)
(* Rates are kept in tenths of a percent, the unit of round(rate, 1).      *)
(***************************************************************************)
EXTENDS Integers, Sequences, FiniteSets, TLC

VARIABLES raw, columns, message,
          df, grace_period_days, today, pc, error,
          churn_events, reactivations,
          yearly_churn, current_year_churn, waterfall_data, months, v1_records,
          sales_performance, sales_summary, reactivation_rates,
          sellers, detailed_df, summary, insights, sales_pc

upload_vars == <<raw, columns, message>>

performance_vars == <<sales_performance, sales_summary, reactivation_rates>>

journey_vars == <<churn_events, reactivations>>

result_vars == <<yearly_churn, current_year_churn, waterfall_data, months, v1_records>>

sales_vars == <<sellers, detailed_df, summary, insights, sales_pc>>

vars == <<upload_vars, df, grace_period_days, today, pc, error, journey_vars, result_vars,
          performance_vars, sales_vars>>

(***************************************************************************)
(* Calendar                                                                *)
(***************************************************************************)
start_year == 2020

NaT == -1000000

IsLeap(y) == (y % 4 = 0 /\ y % 100 # 0) \/ y % 400 = 0

DaysInYear(y) == IF IsLeap(y) THEN 366 ELSE 365

\* pd.Timestamp(f"{year}-01-01") as a day number (2020-01-01 is day 0)
RECURSIVE YearStart(_)
YearStart(y) ==
    IF y = 2020 THEN 0
    ELSE IF y > 2020 THEN YearStart(y - 1) + DaysInYear(y - 1)
    ELSE YearStart(y + 1) - DaysInYear(y)

\* pd.Timestamp(f"{year}-12-31") as a day number
YearEnd(y) == YearStart(y + 1) - 1

\* Timestamp.year
RECURSIVE YearFrom(_, _)
YearFrom(y, n) ==
    IF n < YearStart(y) THEN YearFrom(y - 1, n)
    ELSE IF n > YearEnd(y) THEN YearFrom(y + 1, n)
    ELSE y

YearOf(n) == YearFrom(2020, n)

\* calendar.monthrange(year, month)[1]
DaysInMonth(y, m) ==
    IF m = 2 THEN (IF IsLeap(y) THEN 29 ELSE 28)
    ELSE IF m \in {4, 6, 9, 11} THEN 30 ELSE 31

RECURSIVE DaysBeforeMonth(_, _)
DaysBeforeMonth(y, m) ==
    IF m = 1 THEN 0 ELSE DaysBeforeMonth(y, m - 1) + DaysInMonth(y, m - 1)

\* pd.Timestamp(year, month, day) as a day number
DayNumber(y, m, d) == YearStart(y) + DaysBeforeMonth(y, m) + d - 1

\* Timestamp.month: rest is the number of days since the first of month m
RECURSIVE MonthFrom(_, _, _)
MonthFrom(y, m, rest) ==
    IF rest < DaysInMonth(y, m) THEN m ELSE MonthFrom(y, m + 1, rest - DaysInMonth(y, m))

MonthOf(n) == MonthFrom(YearOf(n), 1, n - YearStart(YearOf(n)))

\* Timestamp.day
DayOf(n) == n - DayNumber(YearOf(n), MonthOf(n), 1) + 1

\* Timestamp.replace(day=d)
ReplaceDay(n, d) == DayNumber(YearOf(n), MonthOf(n), d)

\* the day d of month m of year y moved back by i months, the day clamped
\* to the length of the month reached
MonthShift(y, m, d, i) ==
    LET total == y * 12 + (m - 1) - i
        y2 == total \div 12
        m2 == (total % 12) + 1
    IN  DayNumber(y2, m2, IF d <= DaysInMonth(y2, m2) THEN d ELSE DaysInMonth(y2, m2))

\* n - relativedelta(months=i)
MinusMonths(n, i) == MonthShift(YearOf(n), MonthOf(n), DayOf(n), i)

\* (start, start.replace(day=calendar.monthrange(start.year, start.month)[1]))
MonthWindow(start) ==
    <<start, ReplaceDay(start, DaysInMonth(YearOf(start), MonthOf(start)))>>

\* variant: a month back is 30 days back
MonthWindowsThirtyDays(last_full) ==
    [n \in 1..12 |-> MonthWindow(ReplaceDay(last_full - 30 * (12 - n), 1))]

\* the loop of last_12_full_months and the reversal of its list: entry n
\* is the window of i = 12 - n
MonthWindows(last_full) ==
    [n \in 1..12 |-> MonthWindow(ReplaceDay(MinusMonths(last_full, 12 - n), 1))]

\* A Timestamp is the pair <<day, time of day>>; the time of day is 0 at
\* midnight and 1 later in the day. replace(day=...), the Timedelta of whole
\* days and relativedelta(months=...) change the day and keep the time.
Timestamp(day, time) == <<day, time>>

TimesOfDay == {0, 1}

\* the (start, end) windows of the 12 full months before ref_date's month,
\* oldest first; every bound has the time of day of ref_date
last_12_full_months(ref_date) ==
    LET days == MonthWindows(ReplaceDay(ref_date[1], 1) - 1)
    IN  [n \in 1..12 |-> <<Timestamp(days[n][1], ref_date[2]),
                           Timestamp(days[n][2], ref_date[2])>>]

(***************************************************************************)
(* Constant tables                                                         *)
(***************************************************************************)
RELEVANT_GROUPS ==
    << "Firmendaten Manager", "Website", "SEO", "Google Ads",
       "Postings", "Superkombis", "Social Media Werbeanzeigen" >>

RESELLER_CUSTOMERS == {1902101, 1909143, 1903121, 1905146, 1911102}

\* The order of the group labels as Python compares strings (code points):
\* sort_values and groupby order the ProductGroup column this way.
GroupSortKey(g) ==
    CASE g = "Firmendaten Manager"        -> 1
      [] g = "Google Ads"                 -> 2
      [] g = "Postings"                   -> 3
      [] g = "SEO"                        -> 4
      [] g = "Social Media Werbeanzeigen" -> 5
      [] g = "Superkombis"                -> 6
      [] g = "Website"                    -> 7

(***************************************************************************)
(* Comparisons of dates: every comparison with NaT is False                *)
(***************************************************************************)
isna(d) == d = NaT

DateLt(a, b) == ~isna(a) /\ ~isna(b) /\ a < b

DateLe(a, b) == ~isna(a) /\ ~isna(b) /\ a <= b

DateGt(a, b) == DateLt(b, a)

DateGe(a, b) == DateLe(b, a)

\* Comparisons of a date column with a Timestamp: the dates of the table
\* are days at midnight
DateLtTs(a, ts) == ~isna(a) /\ (a < ts[1] \/ (a = ts[1] /\ 0 < ts[2]))

DateGeTs(a, ts) == ~isna(a) /\ ~DateLtTs(a, ts)

DateLeTs(a, ts) == ~isna(a) /\ (a < ts[1] \/ (a = ts[1] /\ 0 <= ts[2]))

\* the smallest element of a non-empty set of day numbers (Series.min)
SetMin(S) == CHOOSE m \in S : \A x \in S : m <= x

(***************************************************************************)
(* analyze_customer_journey                                                *)
(***************************************************************************)
IsReseller(r) == r.Kundennummer \in RESELLER_CUSTOMERS

SameKey(r, s) == r.Kundennummer = s.Kundennummer /\ r.ProductGroup = s.ProductGroup

\* sort_values(['Kundennummer', 'ProductGroup', 'Beginn']): ascending, NaT last
RowLess(r, s) ==
    \/ r.Kundennummer < s.Kundennummer
    \/ /\ r.Kundennummer = s.Kundennummer
       /\ GroupSortKey(r.ProductGroup) < GroupSortKey(s.ProductGroup)
    \/ /\ SameKey(r, s)
       /\ ~isna(r.Beginn)
       /\ (isna(s.Beginn) \/ r.Beginn < s.Beginn)

\* The position row i of d takes in the sorted table. The sort over several
\* columns is stable: rows with equal keys keep their order of d.
SortPos(d, i) ==
    1 + Cardinality({j \in 1..Len(d) :
            \/ RowLess(d[j], d[i])
            \/ (~RowLess(d[i], d[j]) /\ j < i)})

SortValues(d) ==
    [p \in 1..Len(d) |-> d[CHOOSE i \in 1..Len(d) : SortPos(d, i) = p]]

\* variant: the reseller filter is missing
DropResellersKeepAll(d) == d

\* df[~df['Kundennummer'].isin(RESELLER_CUSTOMERS)]
DropResellers(d) == SelectSeq(d, LAMBDA r : ~IsReseller(r))

\* variant: the sort-position condition (customer_df.index > i) is missing
FutureContractsAnyPosition(s, p) ==
    {q \in 1..Len(s) : SameKey(s[q], s[p]) /\ DateGt(s[q].Beginn, s[p].Ende)}

\* variant: a contract starting on the end date itself is a follow-on
FutureContractsFromEnd(s, p) ==
    {q \in 1..Len(s) :
        /\ SameKey(s[q], s[p])
        /\ DateGe(s[q].Beginn, s[p].Ende)
        /\ q > p}

\* variant: every later row of the partition is a follow-on, whatever its
\* start date
FutureContractsLaterRows(s, p) ==
    {q \in 1..Len(s) : SameKey(s[q], s[p]) /\ ~isna(s[q].Beginn) /\ q > p}

\* future_contracts of the contract at position p of the sorted table s:
\* rows of the same (Kundennummer, ProductGroup) group at a later position
\* whose Beginn is after the contract's Ende
FutureContracts(s, p) ==
    {q \in 1..Len(s) :
        /\ SameKey(s[q], s[p])
        /\ DateGt(s[q].Beginn, s[p].Ende)
        /\ q > p}

TypReactivation == "Reaktivierung"
TypLongGap == "Echte Kuendigung (lange Pause)"
TypNoFollowOn == "Echte Kuendigung (kein Folgevertrag)"
TypNone == "none"

\* variant: a follow-on after too long a pause produces no event at all
ClassifyDropLongGap(s, p, grace) ==
    LET row == s[p]
        future == FutureContracts(s, p)
        next_start == SetMin({s[q].Beginn : q \in future})
        gap_days == next_start - row.Ende
        base == [Kundennummer |-> row.Kundennummer, ProductGroup |-> row.ProductGroup,
                 Ende |-> row.Ende, NeuerBeginn |-> NaT, Luecke_Tage |-> 0]
    IN  IF isna(row.Ende) THEN base @@ [Typ |-> TypNone]
        ELSE IF future # {} THEN
            IF gap_days <= grace
            THEN [base EXCEPT !.NeuerBeginn = next_start, !.Luecke_Tage = gap_days]
                    @@ [Typ |-> TypReactivation]
            ELSE base @@ [Typ |-> TypNone]
        ELSE base @@ [Typ |-> TypNoFollowOn]

\* variant: the grace period test is strict (gap_days < grace_period_days)
ClassifyStrictGrace(s, p, grace) ==
    LET row == s[p]
        future == FutureContracts(s, p)
        next_start == SetMin({s[q].Beginn : q \in future})
        gap_days == next_start - row.Ende
        base == [Kundennummer |-> row.Kundennummer, ProductGroup |-> row.ProductGroup,
                 Ende |-> row.Ende, NeuerBeginn |-> NaT, Luecke_Tage |-> 0]
    IN  IF isna(row.Ende) THEN base @@ [Typ |-> TypNone]
        ELSE IF future # {} THEN
            IF gap_days < grace
            THEN [base EXCEPT !.NeuerBeginn = next_start, !.Luecke_Tage = gap_days]
                    @@ [Typ |-> TypReactivation]
            ELSE base @@ [Typ |-> TypLongGap]
        ELSE base @@ [Typ |-> TypNoFollowOn]

\* variant: the grace period test is reversed (gap_days >= grace_period_days)
ClassifyGraceReversed(s, p, grace) ==
    LET row == s[p]
        future == FutureContracts(s, p)
        next_start == SetMin({s[q].Beginn : q \in future})
        gap_days == next_start - row.Ende
        base == [Kundennummer |-> row.Kundennummer, ProductGroup |-> row.ProductGroup,
                 Ende |-> row.Ende, NeuerBeginn |-> NaT, Luecke_Tage |-> 0]
    IN  IF isna(row.Ende) THEN base @@ [Typ |-> TypNone]
        ELSE IF future # {} THEN
            IF gap_days >= grace
            THEN [base EXCEPT !.NeuerBeginn = next_start, !.Luecke_Tage = gap_days]
                    @@ [Typ |-> TypReactivation]
            ELSE base @@ [Typ |-> TypLongGap]
        ELSE base @@ [Typ |-> TypNoFollowOn]

\* The verdict of the loop body for the contract at position p
Classify(s, p, grace) ==
    LET row == s[p]
        future == FutureContracts(s, p)
        next_start == SetMin({s[q].Beginn : q \in future})
        gap_days == next_start - row.Ende
        base == [Kundennummer |-> row.Kundennummer, ProductGroup |-> row.ProductGroup,
                 Ende |-> row.Ende, NeuerBeginn |-> NaT, Luecke_Tage |-> 0]
    IN  IF isna(row.Ende) THEN base @@ [Typ |-> TypNone]
        ELSE IF future # {} THEN
            IF gap_days <= grace
            THEN [base EXCEPT !.NeuerBeginn = next_start, !.Luecke_Tage = gap_days]
                    @@ [Typ |-> TypReactivation]
            ELSE base @@ [Typ |-> TypLongGap]
        ELSE base @@ [Typ |-> TypNoFollowOn]

Verdicts(d, grace) ==
    LET s == SortValues(DropResellers(d))
    IN  [p \in 1..Len(s) |-> Classify(s, p, grace)]

ChurnRecord(v) ==
    [Kundennummer |-> v.Kundennummer, ProductGroup |-> v.ProductGroup,
     ChurnDatum |-> v.Ende, Typ |-> v.Typ]

ReactivationRecord(v) ==
    [Kundennummer |-> v.Kundennummer, ProductGroup |-> v.ProductGroup,
     Ende |-> v.Ende, NeuerBeginn |-> v.NeuerBeginn,
     Luecke_Tage |-> v.Luecke_Tage, Typ |-> v.Typ]

MapSeq(s, F(_)) == [i \in 1..Len(s) |-> F(s[i])]

JourneyChurnEvents(d, grace) ==
    MapSeq(SelectSeq(Verdicts(d, grace),
                     LAMBDA v : v.Typ \in {TypLongGap, TypNoFollowOn}),
           ChurnRecord)

JourneyReactivations(d, grace) ==
    MapSeq(SelectSeq(Verdicts(d, grace), LAMBDA v : v.Typ = TypReactivation),
           ReactivationRecord)

(***************************************************************************)
(* Aggregators                                                             *)
(***************************************************************************)
Count(s, P(_)) == Cardinality({i \in 1..Len(s) : P(s[i])})

\* (Beginn < D) & (Ende.isna() | (Ende >= D))
ActiveAt(r, D) == DateLt(r.Beginn, D) /\ (isna(r.Ende) \/ DateGe(r.Ende, D))

\* (Ende >= y_start) & (Ende <= y_end)
EndedIn(r, y_start, y_end) == DateGe(r.Ende, y_start) /\ DateLe(r.Ende, y_end)

\* df[df['ProductGroup'] == group]
GroupDf(d, group) == SelectSeq(d, LAMBDA r : r.ProductGroup = group)

\* the groups of RELEVANT_GROUPS that pass `if len(group_df) == 0: continue`
GroupsWithRows(d) == SelectSeq(RELEVANT_GROUPS, LAMBDA g : Len(GroupDf(d, g)) > 0)

\* round(x, 1) of x = num / den * 100, in tenths: to the nearest tenth, a
\* tie to the even one
RoundTenths(num, den) ==
    LET q == (num * 1000) \div den
        r == (num * 1000) % den
    IN  IF 2 * r < den THEN q
        ELSE IF 2 * r > den THEN q + 1
        ELSE IF q % 2 = 0 THEN q ELSE q + 1

\* the value that stands for a ZeroDivisionError raised by the division
ZeroDivisionError == -1

\* variant: the division is not guarded
ChurnRateUnguarded(total_churned, total_active) ==
    IF total_active # 0 THEN RoundTenths(total_churned, total_active) ELSE ZeroDivisionError

\* round((total_churned / total_active * 100) if total_active > 0 else 0.0, 1)
ChurnRate(total_churned, total_active) ==
    IF total_active > 0 THEN RoundTenths(total_churned, total_active) ELSE 0

\* the customers of active_customers: regular customers with a contract of
\* the group active at y_start
ActiveCustomers(group_df, y_start) ==
    {group_df[i].Kundennummer :
        i \in {j \in 1..Len(group_df) :
                 ~IsReseller(group_df[j]) /\ ActiveAt(group_df[j], y_start)}}

\* len(reseller_df[active test])
ResellerActive(group_df, y_start) ==
    Count(group_df, LAMBDA r : IsReseller(r) /\ ActiveAt(r, y_start))

\* variant: the window of the churn events has no upper end
RegularChurnedNoUpperBound(ce, group, y_start, y_end) ==
    {ce[i].Kundennummer :
        i \in {j \in 1..Len(ce) :
                 /\ ce[j].ProductGroup = group
                 /\ DateGe(ce[j].ChurnDatum, y_start)}}

\* the customers with a churn event of the group dated inside the window
RegularChurned(ce, group, y_start, y_end) ==
    {ce[i].Kundennummer :
        i \in {j \in 1..Len(ce) :
                 /\ ce[j].ProductGroup = group
                 /\ DateGe(ce[j].ChurnDatum, y_start)
                 /\ DateLe(ce[j].ChurnDatum, y_end)}}

\* len(reseller_df[(Ende >= y_start) & (Ende <= y_end)])
ResellerChurned(group_df, y_start, y_end) ==
    Count(group_df, LAMBDA r : IsReseller(r) /\ EndedIn(r, y_start, y_end))

\* one row of calculate_yearly_churn
YearlyRecord(d, ce, now, year, group) ==
    LET y_start == YearStart(year)
        y_end == IF year = YearOf(now) THEN now ELSE YearEnd(year)
        group_df == GroupDf(d, group)
        active_customers == ActiveCustomers(group_df, y_start)
        num_reseller_active == ResellerActive(group_df, y_start)
        regular_churned == RegularChurned(ce, group, y_start, y_end)
        num_reseller_churned == ResellerChurned(group_df, y_start, y_end)
        total_active == Cardinality(active_customers) + num_reseller_active
        total_churned == Cardinality(regular_churned) + num_reseller_churned
    IN  [Jahr |-> year, Gruppe |-> group,
         AktiveKunden |-> Cardinality(active_customers),
         AktiveReseller |-> num_reseller_active,
         GesamtAktiv |-> total_active,
         ChurnedKunden |-> Cardinality(regular_churned),
         ChurnedReseller |-> num_reseller_churned,
         GesamtChurned |-> total_churned,
         JahresChurn |-> ChurnRate(total_churned, total_active)]

\* calculate_yearly_churn: the rows year by year, within a year in the
\* order of RELEVANT_GROUPS
YearlyChurn(d, ce, now) ==
    LET groups == GroupsWithRows(d)
        ng == Len(groups)
        nyears == IF YearOf(now) >= start_year THEN YearOf(now) - start_year + 1 ELSE 0
    IN  [n \in 1..(nyears * ng) |->
            YearlyRecord(d, ce, now, start_year + ((n - 1) \div ng),
                         groups[((n - 1) % ng) + 1])]

\* one row of calculate_current_year_churn: the churned counts have no
\* upper end of the window
CurrentYearRecord(d, ce, now, group) ==
    LET y_start == YearStart(YearOf(now))
        group_df == GroupDf(d, group)
        active_customers == ActiveCustomers(group_df, y_start)
        reseller_active == ResellerActive(group_df, y_start)
        regular_churned ==
            Cardinality({ce[i].Kundennummer :
                i \in {j \in 1..Len(ce) :
                         /\ ce[j].ProductGroup = group
                         /\ DateGe(ce[j].ChurnDatum, y_start)}})
        reseller_churned ==
            Count(group_df, LAMBDA r : IsReseller(r) /\ DateGe(r.Ende, y_start))
        total_active == Cardinality(active_customers) + reseller_active
        total_churned == regular_churned + reseller_churned
    IN  IF Len(group_df) = 0
        THEN [Produktgruppe |-> group, AktiveKunden |-> 0, Verluste |-> 0, ChurnRate |-> 0]
        ELSE [Produktgruppe |-> group, AktiveKunden |-> total_active,
              Verluste |-> total_churned,
              ChurnRate |-> ChurnRate(total_churned, total_active)]

\* calculate_current_year_churn: one row for each of RELEVANT_GROUPS
CurrentYearChurn(d, ce, now) ==
    [n \in 1..Len(RELEVANT_GROUPS) |-> CurrentYearRecord(d, ce, now, RELEVANT_GROUPS[n])]

\* Series.nunique() of the Kundennummer column of the rows that pass P
NUnique(group_df, P(_)) ==
    Cardinality({group_df[i].Kundennummer : i \in {j \in 1..Len(group_df) : P(group_df[j])}})

\* variant: the reseller losses are left out of the ending count
WaterfallRecordRegularOnly(d, ce, now, year, group) ==
    LET y_start == YearStart(year)
        y_end == IF year < YearOf(now) THEN YearEnd(year) ELSE now
        group_df == GroupDf(d, group)
        start_customers == NUnique(group_df, LAMBDA r : ActiveAt(r, y_start))
        new_customers ==
            NUnique(group_df, LAMBDA r : DateGe(r.Beginn, y_start) /\ DateLe(r.Beginn, y_end))
        churned_customers == Cardinality(RegularChurned(ce, group, y_start, y_end))
        total_churned == churned_customers + ResellerChurned(group_df, y_start, y_end)
    IN  [Gruppe |-> group, Start |-> start_customers, Neukunden |-> new_customers,
         Verluste |-> -total_churned,
         Ende |-> start_customers + new_customers - churned_customers]

\* one row of calculate_waterfall_data
WaterfallRecord(d, ce, now, year, group) ==
    LET y_start == YearStart(year)
        y_end == IF year < YearOf(now) THEN YearEnd(year) ELSE now
        group_df == GroupDf(d, group)
        start_customers == NUnique(group_df, LAMBDA r : ActiveAt(r, y_start))
        new_customers ==
            NUnique(group_df, LAMBDA r : DateGe(r.Beginn, y_start) /\ DateLe(r.Beginn, y_end))
        churned_customers == Cardinality(RegularChurned(ce, group, y_start, y_end))
        reseller_churned == ResellerChurned(group_df, y_start, y_end)
        total_churned == churned_customers + reseller_churned
        end_customers == start_customers + new_customers - total_churned
    IN  [Gruppe |-> group, Start |-> start_customers, Neukunden |-> new_customers,
         Verluste |-> -total_churned, Ende |-> end_customers]

\* calculate_waterfall_data
WaterfallData(d, ce, now, year) ==
    LET groups == GroupsWithRows(d)
    IN  [n \in 1..Len(groups) |-> WaterfallRecord(d, ce, now, year, groups[n])]

\* the group labels of df.groupby('ProductGroup'), in sorted order
GroupbyGroups(d) ==
    LET present == {d[i].ProductGroup : i \in 1..Len(d)}
        rank(g) == 1 + Cardinality({h \in present : GroupSortKey(h) < GroupSortKey(g)})
    IN  [n \in 1..Cardinality(present) |-> CHOOSE g \in present : rank(g) = n]

\* start_ts.strftime("%Y-%m")
StrftimeYm(ts) == <<YearOf(ts[1]), MonthOf(ts[1])>>

\* len(gdf[(Beginn < start_ts) & (Ende.isna() | (Ende >= start_ts))])
MonthlyActive(gdf, start_ts) ==
    Count(gdf, LAMBDA r : DateLtTs(r.Beginn, start_ts)
                            /\ (isna(r.Ende) \/ DateGeTs(r.Ende, start_ts)))

\* len(gdf[(Ende >= start_ts) & (Ende <= end_ts)])
MonthlyChurned(gdf, start_ts, end_ts) ==
    Count(gdf, LAMBDA r : DateGeTs(r.Ende, start_ts) /\ DateLeTs(r.Ende, end_ts))

\* one row of the monthly baseline: contracts ended in the window over
\* contracts active at its start
MonthlyRecord(d, group, window) ==
    LET gdf == GroupDf(d, group)
        active == MonthlyActive(gdf, window[1])
        churned == MonthlyChurned(gdf, window[1], window[2])
    IN  [Monat |-> StrftimeYm(window[1]), Gruppe |-> group,
         OriginalChurn |-> ChurnRate(churned, active)]

\* v1_records of churn_auswerten_v2 for the windows of months
MonthlyRecords(d, windows) ==
    LET groups == GroupbyGroups(d)
    IN  [n \in 1..(Len(groups) * 12) |->
            MonthlyRecord(d, groups[((n - 1) \div 12) + 1], windows[((n - 1) % 12) + 1])]

\* churn_events is pd.DataFrame([]) when no event was appended: a table
\* without columns, and churn_events['ProductGroup'] raises KeyError
NoColumns(ce) == Len(ce) = 0

(***************************************************************************)
(* analyze_sales_performance_extended: threshold, ranking, insights        *)
(***************************************************************************)
MIN_ACTIVE_CUSTOMERS == 50

\* variant: a salesperson with exactly the minimum is skipped too
BelowThresholdInclusive(active_customers) == active_customers <= MIN_ACTIVE_CUSTOMERS

\* if active_customers < MIN_ACTIVE_CUSTOMERS: continue
BelowThreshold(active_customers) == active_customers < MIN_ACTIVE_CUSTOMERS

\* the insights before the function has returned
NoInsights == [message |-> "none"]

\* the insights of the early return
EmptyInsights == [message |-> "Keine Verkaeufer mit mindestens 50 aktiven Kunden gefunden"]

\* summary = detailed_df[['Rang', 'Verkäufer', 'Aktive Kunden', ...,
\* 'Performance-Score']]
SummaryOf(rows) ==
    [i \in 1..Len(rows) |->
        [Rang |-> rows[i].Rang, Verkaeufer |-> rows[i].Verkaeufer,
         AktiveKunden |-> rows[i].AktiveKunden,
         PerformanceScore |-> rows[i].PerformanceScore]]

\* 5 * Series.quantile(k / 5) of the scores, by linear interpolation
\* between the order statistics around position (n - 1) * k / 5
QuantileFifths(rows, k) ==
    LET n == Len(rows)
        below(i) == Cardinality({j \in 1..n :
                        \/ rows[j].PerformanceScore < rows[i].PerformanceScore
                        \/ (rows[j].PerformanceScore = rows[i].PerformanceScore /\ j < i)})
        sorted == [q \in 1..n |-> rows[CHOOSE i \in 1..n : below(i) = q - 1].PerformanceScore]
        lower == ((n - 1) * k) \div 5
        part == ((n - 1) * k) % 5
    IN  IF part = 0 THEN 5 * sorted[lower + 1]
        ELSE 5 * sorted[lower + 1] + part * (sorted[lower + 2] - sorted[lower + 1])

\* generate_insights: the names of the top performers (score at or above
\* the 0.8 quantile) and of those needing attention (at or below the 0.2
\* quantile), in the order of the table
GenerateInsights(rows) ==
    LET Names(sel) == [i \in 1..Len(sel) |-> sel[i].Verkaeufer]
    IN  [top_performers |->
            Names(SelectSeq(rows, LAMBDA r : 5 * r.PerformanceScore >= QuantileFifths(rows, 4))),
         need_attention |->
            Names(SelectSeq(rows, LAMBDA r : 5 * r.PerformanceScore <= QuantileFifths(rows, 1)))]


\* Series.rank(ascending=False, method='min'): one more than the number of
\* rows with a higher score, so rows with equal scores share the lowest
\* rank of their group and the ranks after a tie skip
RankMin(rows, i) ==
    1 + Cardinality({j \in 1..Len(rows) : rows[j].PerformanceScore > rows[i].PerformanceScore})

\* detailed_df['Rang'] = detailed_df['Performance-Score'].rank(...).astype(int)
WithRang(rows) == [i \in 1..Len(rows) |-> [rows[i] EXCEPT !.Rang = RankMin(rows, i)]]

\* detailed_df.sort_values('Rang'): rows of equal Rang keep their order
\* (the sort of a short column is an insertion sort)
SortByRang(rows) ==
    LET pos(i) == 1 + Cardinality({j \in 1..Len(rows) :
                        \/ rows[j].Rang < rows[i].Rang
                        \/ (rows[j].Rang = rows[i].Rang /\ j < i)})
    IN  [p \in 1..Len(rows) |-> rows[CHOOSE i \in 1..Len(rows) : pos(i) = p]]

(***************************************************************************)
(* The uploaded table and its preparation (churn_auswerten_v2)             *)
(***************************************************************************)
required_cols == <<"Abo", "Produktkategorie", "Produkt", "Beginn", "Ende", "Kundennummer">>

\* the optional column of the assigned salesperson
SalesColumn == "Zugewiesen an"

\* variant: only the first missing column is reported
MissingColsFirstOnly(cols) ==
    LET all == SelectSeq(required_cols, LAMBDA c : c \notin cols)
    IN  IF Len(all) > 1 THEN <<all[1]>> ELSE all

\* missing_cols = [col for col in required_cols if col not in df.columns]
MissingCols(cols) == SelectSeq(required_cols, LAMBDA c : c \notin cols)

\* str.lower() on the Abo values that occur
Lower(s) ==
    CASE s = "Ja" -> "ja"
      [] s = "JA" -> "ja"
      [] s = "Nein" -> "nein"
      [] s = "True" -> "true"
      [] OTHER -> s

\* df[df['Abo'].astype(str).str.lower().isin(['ja','yes','true','1'])]
FilterAbo(t) == SelectSeq(t, LAMBDA r : Lower(r.Abo) \in {"ja", "yes", "true", "1"})

postings ==
    {"Social Media Postingpaket 12 Postings",
     "Social Media Postingpaket 24 Postings",
     "Social Media Postingpaket 52 Postings"}

\* variant: the "(alt)" combo packages are not listed
superkWithoutAlt ==
    {"Social Media SUPERKOMBI 12er", "Social Media SUPERKOMBI 24er",
     "Social Media SUPERKOMBI 52er"}

superk ==
    {"Social Media SUPERKOMBI 12er", "Social Media SUPERKOMBI 12er (alt)",
     "Social Media SUPERKOMBI 24er", "Social Media SUPERKOMBI 24er (alt)",
     "Social Media SUPERKOMBI 52er", "Social Media SUPERKOMBI 52er (alt)"}

ads == {"Social Media Werbeanzeigen Kampagnenbudget"}

Unbekannt == "Unbekannt"

map_group(row) ==
    LET cat == row.Produktkategorie
        prod == row.Produkt
    IN  IF cat # "Social Media" THEN cat
        ELSE IF prod \in postings THEN "Postings"
        ELSE IF prod \in superk THEN "Superkombis"
        ELSE IF prod \in ads THEN "Social Media Werbeanzeigen"
        ELSE Unbekannt

\* df['ProductGroup'] = df.apply(map_group, axis=1)
ApplyMapGroup(t) == [i \in 1..Len(t) |-> t[i] @@ [ProductGroup |-> map_group(t[i])]]

\* variant: the relevant-group filter is missing
IsinRelevantGroupsKeepAll(t) == t

\* df[df['ProductGroup'].isin(RELEVANT_GROUPS)]
IsinRelevantGroups(t) ==
    SelectSeq(t, LAMBDA r :
        r.ProductGroup \in {RELEVANT_GROUPS[i] : i \in 1..Len(RELEVANT_GROUPS)})

\* A date cell is the triple <<year, month, day>> of its text, <<0, 0, 0>>
\* for an empty cell. pd.to_datetime(errors='coerce') gives the day of a
\* date of the calendar and NaT for everything else.
to_datetime(cell) ==
    IF /\ cell[1] >= start_year
       /\ cell[2] \in 1..12
       /\ cell[3] >= 1
       /\ cell[3] <= DaysInMonth(cell[1], IF cell[2] \in 1..12 THEN cell[2] ELSE 1)
    THEN DayNumber(cell[1], cell[2], cell[3])
    ELSE NaT

\* the two to_datetime assignments, Beginn first
ParseDates(t) ==
    [i \in 1..Len(t) |->
        [t[i] EXCEPT !.Beginn = to_datetime(@), !.Ende = to_datetime(@)]]

\* A customer id cell is a number or a text that is no number.
\* pd.to_numeric(errors='coerce').fillna(0).astype(int)
to_numeric(cell) == IF cell.kind = "number" THEN cell.value ELSE 0

CoerceKundennummer(t) ==
    [i \in 1..Len(t) |-> [t[i] EXCEPT !.Kundennummer = to_numeric(@)]]

(***************************************************************************)
(* analyze_sales_performance                                               *)
(***************************************************************************)
\* an empty cell of a text column (NaN)
NaN == "NaN"

\* str.strip() on the names that occur
Strip(s) ==
    CASE s = " Anna " -> "Anna"
      [] s = "Ben " -> "Ben"
      [] OTHER -> s

\* the order of the names in a sorted index
SellerSortKey(v) ==
    CASE v = "Anna" -> 1
      [] v = "Ben" -> 2
      [] v = "Nicht zugewiesen" -> 3
      [] OTHER -> 4

\* df['Zugewiesen an'].fillna('Nicht zugewiesen').str.strip()
Verkaeufer(r) == IF r.Zugewiesen = NaN THEN "Nicht zugewiesen" ELSE Strip(r.Zugewiesen)

\* df['Verkäufer'].unique(): the names in the order of first appearance
UniqueSellers(d) ==
    LET firsts == {i \in 1..Len(d) : \A j \in 1..(i - 1) : Verkaeufer(d[j]) # Verkaeufer(d[i])}
    IN  [n \in 1..Cardinality(firsts) |->
            Verkaeufer(d[CHOOSE i \in firsts : Cardinality({j \in firsts : j < i}) = n - 1])]

\* a rate that is inf: a positive count divided by 0 in a Series
Infinity == 1000000

\* one row of performance_data
SalesRecord(vg_df, v, group, y_start) ==
    LET Customers(rows) == Cardinality({vg_df[i].Kundennummer : i \in rows})
        active_customers ==
            Customers({i \in 1..Len(vg_df) : ActiveAt(vg_df[i], y_start)})
        churned_customers ==
            Customers({i \in 1..Len(vg_df) : DateGe(vg_df[i].Ende, y_start)})
        new_customers ==
            Customers({i \in 1..Len(vg_df) : DateGe(vg_df[i].Beginn, y_start)})
    IN  [Verkaeufer |-> v, Produktgruppe |-> group,
         AktiveKunden |-> active_customers, Neukunden |-> new_customers,
         VerloreneKunden |-> churned_customers,
         ChurnRate |-> ChurnRate(churned_customers, active_customers)]

\* the rows of one salesperson, group by group
SellerRecords(d, v, y_start) ==
    LET v_df == SelectSeq(d, LAMBDA r : Verkaeufer(r) = v)
        groups == GroupsWithRows(v_df)
    IN  [n \in 1..Len(groups) |->
            SalesRecord(GroupDf(v_df, groups[n]), v, groups[n], y_start)]

RECURSIVE PerformanceData(_, _, _, _)
PerformanceData(d, names, k, y_start) ==
    IF k > Len(names) THEN << >>
    ELSE SellerRecords(d, names[k], y_start) \o PerformanceData(d, names, k + 1, y_start)

\* performance_df
SalesPerformance(d, now) ==
    PerformanceData(d, UniqueSellers(d), 1, YearStart(YearOf(now)))

\* agg 'sum' of a column
RECURSIVE SeqSum(_)
SeqSum(q) == IF Len(q) = 0 THEN 0 ELSE Head(q) + SeqSum(Tail(q))

\* one row of summary: the sums of a salesperson and the rate of the sums,
\* NaN (0 / 0) filled with 0, a positive count over 0 left at inf
SummaryRecord(perf, v) ==
    LET rows == SelectSeq(perf, LAMBDA r : r.Verkaeufer = v)
        active == SeqSum([i \in 1..Len(rows) |-> rows[i].AktiveKunden])
        new == SeqSum([i \in 1..Len(rows) |-> rows[i].Neukunden])
        lost == SeqSum([i \in 1..Len(rows) |-> rows[i].VerloreneKunden])
    IN  [Verkaeufer |-> v, AktiveKunden |-> active, Neukunden |-> new,
         VerloreneKunden |-> lost,
         ChurnRate |-> IF active > 0 THEN RoundTenths(lost, active)
                       ELSE IF lost = 0 THEN 0 ELSE Infinity]

\* summary: groupby('Verkäufer') in the order of the names, then
\* sort_values('Churn Rate (%)'), rows of equal rate keeping their order
SalesSummary(perf) ==
    LET names == {perf[i].Verkaeufer : i \in 1..Len(perf)}
        grouped == [n \in 1..Cardinality(names) |->
                      SummaryRecord(perf,
                          CHOOSE v \in names :
                              Cardinality({w \in names : SellerSortKey(w) < SellerSortKey(v)})
                                = n - 1)]
        pos(i) == 1 + Cardinality({j \in 1..Len(grouped) :
                        \/ grouped[j].ChurnRate < grouped[i].ChurnRate
                        \/ (grouped[j].ChurnRate = grouped[i].ChurnRate /\ j < i)})
    IN  [q \in 1..Len(grouped) |-> grouped[CHOOSE i \in 1..Len(grouped) : pos(i) = q]]

\* df['Verkäufer'] = df['Zugewiesen an'].fillna(...).str.strip(): the table
\* handed to the function gets one more column
WithVerkaeufer(d) == [i \in 1..Len(d) |-> d[i] @@ [Verkaeufer |-> Verkaeufer(d[i])]]

(***************************************************************************)
(* calculate_reactivation_rate                                             *)
(***************************************************************************)
\* the reactivation quote of salesperson v in tenths of a percent
ReactivationRate(d, v, reactivations_df) ==
    LET v_customers == {d[i].Kundennummer : i \in {j \in 1..Len(d) : Verkaeufer(d[j]) = v}}
        v_reactivations ==
            Cardinality({reactivations_df[i].Kundennummer :
                i \in {j \in 1..Len(reactivations_df) :
                         reactivations_df[j].Kundennummer \in v_customers}})
        v_churned ==
            Cardinality({d[i].Kundennummer :
                i \in {j \in 1..Len(d) : Verkaeufer(d[j]) = v /\ ~isna(d[j].Ende)}})
    IN  IF Len(reactivations_df) = 0 THEN 0
        ELSE IF v_churned = 0 THEN 0
        ELSE RoundTenths(v_reactivations, v_churned)

\* the quote of every salesperson of the table, in the order of the loop
ReactivationRates(d, reactivations_df) ==
    LET names == UniqueSellers(d)
    IN  [n \in 1..Len(names) |->
            [Verkaeufer |-> names[n],
             Reaktivierungsquote |-> ReactivationRate(d, names[n], reactivations_df)]]

(***************************************************************************)
(* Inputs                                                                  *)
(***************************************************************************)
MaxRows == 3
MaxGrace == 1

\* the default of the grace_period_days parameter
DefaultGrace == 90

MaxSellers == 4

\* the numbers of active customers of a salesperson: around the threshold
ActiveCounts == {MIN_ACTIVE_CUSTOMERS - 1, MIN_ACTIVE_CUSTOMERS, MIN_ACTIVE_CUSTOMERS + 1}
MaxScore == 2

Today == YearStart(2021) + 1

JourneyDays == {YearStart(2021) - 1, YearStart(2021), YearStart(2021) + 1}

Contract(k, g, b, e) == [Kundennummer |-> k, ProductGroup |-> g, Beginn |-> b, Ende |-> e]

\* One (customer, group) partition with every combination of dates, and two
\* contracts each of another group, another customer and a reseller.
JourneyRows ==
    {Contract(500, "Website", b, e) :
        b \in JourneyDays \cup {NaT}, e \in JourneyDays \cup {NaT}}
    \cup {Contract(k[1], k[2], YearStart(2021), NaT) :
            k \in {<<500, "SEO">>, <<501, "Website">>, <<1902101, "Website">>}}
    \cup {Contract(k[1], k[2], YearStart(2021) - 1, YearStart(2021) - 1) :
            k \in {<<500, "SEO">>, <<501, "Website">>, <<1902101, "Website">>}}

\* Contracts around the start of the current year (2021-01-01), today and
\* the year before: regular customers and a reseller in two groups. Day -1
\* is 2019-12-31 and day 0 is 2020-01-01, the first day of the oldest
\* monthly window.
AggRows ==
    LET y == YearStart(2021)
    IN  {Contract(500, "Website", y - 1, NaT),
         Contract(500, "Website", y - 1, y + 1),
         Contract(500, "Website", y, y + 1),
         Contract(500, "Website", y - 1, y + 2),
         Contract(500, "Website", -1, y - 1),
         Contract(500, "Website", y + 1, NaT),
         Contract(501, "Website", y - 1, y - 1),
         Contract(501, "Website", y, y),
         Contract(501, "Website", -1, 0),
         Contract(1902101, "Website", y - 1, NaT),
         Contract(1902101, "Website", y - 1, y + 1),
         Contract(1902101, "Website", y, y + 2),
         Contract(1902101, "Website", -1, y - 1),
         Contract(500, "SEO", y - 1, y),
         Contract(1902101, "SEO", y, y + 1)}

MaxSalesRows == 4

SalesContract(k, g, b, e, z) == Contract(k, g, b, e) @@ [Zugewiesen |-> z]

\* Contracts with a salesperson: two customers whose contract ended on Jan 1
\* of the current year was followed the day after today by a contract of
\* another salesperson (one of them ending after today), an open contract
\* without a salesperson, a reseller contract and a contract of another
\* group ended in the year.
SalesRows ==
    LET y == YearStart(2021)
    IN  {SalesContract(500, "Website", y - 1, y, "Anna"),
         SalesContract(500, "Website", y + 1, NaT, "Ben "),
         SalesContract(502, "Website", y - 1, y, "Anna"),
         SalesContract(502, "Website", y + 1, y + 2, "Ben "),
         SalesContract(501, "Website", y - 1, NaT, NaN),
         SalesContract(1902101, "Website", y - 1, y, "Ben "),
         SalesContract(501, "SEO", y - 1, y, "Anna")}

\* one row of the uploaded table
RawRow(abo, cat, prod, b, e, k, z) ==
    [Abo |-> abo, Produktkategorie |-> cat, Produkt |-> prod, Beginn |-> b, Ende |-> e,
     Kundennummer |-> k, Zugewiesen |-> z]

Number(n) == [kind |-> "number", value |-> n]

Text == [kind |-> "text", value |-> 0]

EmptyCell == <<0, 0, 0>>

\* Rows of an uploaded table: subscriptions and others, relevant, unmapped
\* and irrelevant products, dates that parse and a date that does not, a
\* customer id that is no number, a reseller, and salespeople.
RunRows ==
    {RawRow("Ja", "Website", "Website Basic", <<2020, 12, 31>>, EmptyCell, Number(500), "Anna"),
     RawRow("ja", "Website", "Website Basic", <<2020, 6, 1>>, <<2020, 12, 31>>, Number(500),
            " Anna "),
     RawRow("Nein", "Website", "Website Basic", <<2020, 6, 1>>, <<2020, 12, 31>>, Number(501),
            "Ben "),
     RawRow("True", "Social Media", "Social Media Postingpaket 12 Postings",
            <<2020, 12, 31>>, <<2021, 1, 1>>, Number(501), NaN),
     RawRow("1", "Social Media", "Social Media Sonstiges", <<2020, 12, 31>>, <<2021, 1, 1>>,
            Number(502), "Ben "),
     RawRow("Ja", "Hosting", "Hosting S", <<2020, 12, 31>>, <<2021, 1, 1>>, Number(502),
            "Anna"),
     RawRow("Ja", "Website", "Website Basic", <<2021, 2, 30>>, <<2020, 12, 31>>, Number(500),
            "Anna"),
     RawRow("Ja", "SEO", "SEO Paket", <<2020, 12, 31>>, <<2021, 1, 1>>, Text, "Ben "),
     RawRow("Ja", "Website", "Website Basic", <<2020, 12, 31>>, <<2021, 1, 2>>,
            Number(1902101), "Anna")}

MaxMapRows == 2

\* the product names of the uploaded tables: the ten names map_group
\* enumerates and two others
ProductNames ==
    {"Social Media Postingpaket 12 Postings", "Social Media Postingpaket 24 Postings",
     "Social Media Postingpaket 52 Postings",
     "Social Media SUPERKOMBI 12er", "Social Media SUPERKOMBI 12er (alt)",
     "Social Media SUPERKOMBI 24er", "Social Media SUPERKOMBI 24er (alt)",
     "Social Media SUPERKOMBI 52er", "Social Media SUPERKOMBI 52er (alt)",
     "Social Media Werbeanzeigen Kampagnenbudget",
     "Social Media Sonstiges", "Website Basic"}

\* Rows for map_group: every product name under the Social Media category
\* and under three other categories
MapRows ==
    {RawRow("Ja", cat, prod, <<2020, 12, 31>>, EmptyCell, Number(500), NaN) :
        cat \in {"Social Media", "Website", "Postings", "Hosting"},
        prod \in ProductNames}

\* The columns of an uploaded table: all, all but the salesperson, and
\* tables with one and with two required columns missing
ColumnSets ==
    LET required == {required_cols[i] : i \in 1..Len(required_cols)}
    IN  {required \cup {SalesColumn}, required, required \ {"Abo"},
         (required \ {"Produkt", "Ende"}) \cup {SalesColumn}}

(***************************************************************************)
(* State machine                                                           *)
(***************************************************************************)
Init ==
    /\ raw = << >>
    /\ columns = {required_cols[i] : i \in 1..Len(required_cols)}
    /\ message = << >>
    /\ sales_performance = << >>
    /\ sales_summary = << >>
    /\ reactivation_rates = << >>
    /\ df = << >>
    /\ grace_period_days = DefaultGrace
    /\ today = Today
    /\ pc = "load"
    /\ error = "none"
    /\ churn_events = << >>
    /\ reactivations = << >>
    /\ yearly_churn = << >>
    /\ current_year_churn = << >>
    /\ waterfall_data = << >>
    /\ months = << >>
    /\ v1_records = << >>
    /\ sellers = << >>
    /\ detailed_df = << >>
    /\ summary = << >>
    /\ insights = NoInsights
    /\ sales_pc = "collect"

\* the loader hands over one more contract row of the uploaded table
LoadRow(U) ==
    /\ pc = "load"
    /\ Len(df) < MaxRows
    /\ \E r \in U : df' = Append(df, r)
    /\ UNCHANGED <<upload_vars, performance_vars, grace_period_days, today, pc, error,
                   journey_vars, result_vars, sales_vars>>

LoadJourneyRow == LoadRow(JourneyRows)

\* one more contract row of a table with the salesperson column
LoadSalesRow ==
    /\ pc = "load"
    /\ Len(df) < MaxSalesRows
    /\ \E r \in SalesRows : df' = Append(df, r)
    /\ UNCHANGED <<upload_vars, performance_vars, grace_period_days, today, pc, error,
                   journey_vars, result_vars, sales_vars>>

LoadAggRow == LoadRow(AggRows)

\* churn_events, reactivations = analyze_customer_journey(df, grace_period_days)
AnalyzeCustomerJourney ==
    /\ pc \in {"load", "journey"}
    /\ \E grace \in 0..MaxGrace :
        /\ grace_period_days' = grace
        /\ churn_events' = JourneyChurnEvents(df, grace)
        /\ reactivations' = JourneyReactivations(df, grace)
    /\ pc' = "yearly"
    /\ UNCHANGED <<upload_vars, performance_vars, df, today, error, result_vars, sales_vars>>

\* yearly_churn = calculate_yearly_churn(df, churn_events, start_year=2020)
CalculateYearlyChurn ==
    /\ pc = "yearly"
    /\ IF NoColumns(churn_events) /\ Len(GroupsWithRows(df)) > 0 /\ YearOf(today) >= start_year
       THEN /\ error' = "KeyError"
            /\ pc' = "failed"
            /\ UNCHANGED yearly_churn
       ELSE /\ yearly_churn' = YearlyChurn(df, churn_events, today)
            /\ pc' = "current_year"
            /\ UNCHANGED error
    /\ UNCHANGED <<upload_vars, performance_vars, df, grace_period_days, today, journey_vars, sales_vars,
                   current_year_churn, waterfall_data, months, v1_records>>

\* current_year_churn = calculate_current_year_churn(df, churn_events)
CalculateCurrentYearChurn ==
    /\ pc = "current_year"
    /\ IF NoColumns(churn_events) /\ Len(GroupsWithRows(df)) > 0
       THEN /\ error' = "KeyError"
            /\ pc' = "failed"
            /\ UNCHANGED current_year_churn
       ELSE /\ current_year_churn' = CurrentYearChurn(df, churn_events, today)
            /\ pc' = "waterfall"
            /\ UNCHANGED error
    /\ UNCHANGED <<upload_vars, performance_vars, df, grace_period_days, today, journey_vars, sales_vars,
                   yearly_churn, waterfall_data, months, v1_records>>

\* waterfall_data = calculate_waterfall_data(df, churn_events, year); the
\* pipeline passes the current year, the function takes any year
CalculateWaterfallData ==
    /\ pc = "waterfall"
    /\ IF NoColumns(churn_events) /\ Len(GroupsWithRows(df)) > 0
       THEN /\ error' = "KeyError"
            /\ pc' = "failed"
            /\ UNCHANGED waterfall_data
       ELSE /\ \E year \in start_year..YearOf(today) :
                  waterfall_data' = WaterfallData(df, churn_events, today, year)
            /\ pc' = "sales"
            /\ UNCHANGED error
    /\ UNCHANGED <<upload_vars, performance_vars, df, grace_period_days, today, journey_vars, sales_vars,
                   yearly_churn, current_year_churn, months, v1_records>>

\* sales_performance, sales_summary = analyze_sales_performance(df, churn_events);
\* the function writes the Verkäufer column into the table it is given
AnalyzeSalesPerformance ==
    /\ pc = "sales"
    /\ IF SalesColumn \notin columns
       THEN /\ sales_performance' = << >>
            /\ sales_summary' = << >>
            /\ UNCHANGED df
       ELSE \E performance_df \in {SalesPerformance(df, today)} :
                /\ df' = WithVerkaeufer(df)
                /\ sales_performance' = performance_df
                /\ sales_summary' = IF Len(performance_df) > 0
                                    THEN SalesSummary(performance_df) ELSE << >>
    /\ pc' = "monthly"
    /\ UNCHANGED <<upload_vars, reactivation_rates, grace_period_days, today, error,
                   journey_vars, result_vars, sales_vars>>

\* reactivation_rate = calculate_reactivation_rate(df, verkäufer, reactivations)
\* for every salesperson of the loop of analyze_sales_performance_extended,
\* on the table and the reactivation events of a finished run
CalculateReactivationRate ==
    /\ pc = "done"
    /\ SalesColumn \in columns
    /\ reactivation_rates' = ReactivationRates(df, reactivations)
    /\ pc' = "rates_done"
    /\ UNCHANGED <<upload_vars, sales_performance, sales_summary, df, grace_period_days,
                   today, error, journey_vars, result_vars, sales_vars>>

\* months = last_12_full_months(pd.Timestamp.today()), the v1_records loop
\* of churn_auswerten_v2 and the pivot of its table; today() reads the
\* clock, date and time. Without records the table has no columns and
\* pivot(index='Monat', ...) raises KeyError.
CalculateMonthly ==
    /\ pc = "monthly"
    /\ \E time \in TimesOfDay :
          \E windows \in {last_12_full_months(Timestamp(today, time))} :
              /\ months' = windows
              /\ v1_records' = MonthlyRecords(df, windows)
    /\ IF Len(df) = 0
       THEN /\ error' = "KeyError"
            /\ pc' = "failed"
       ELSE /\ pc' = "done"
            /\ UNCHANGED error
    /\ UNCHANGED <<upload_vars, performance_vars, df, grace_period_days, today,
                   journey_vars, sales_vars, yearly_churn, current_year_churn,
                   waterfall_data>>

\* One pass of the loop over the salespeople: the next salesperson has
\* active_customers distinct customers active at Jan 1 and is skipped below
\* the threshold; else performance_data.append(...). The score is the value
\* the score formula gives that row, in tenths.
AppendSeller ==
    /\ sales_pc = "collect"
    /\ Len(sellers) < MaxSellers
    /\ \E active_customers \in ActiveCounts, score \in 0..MaxScore :
          LET row == [Verkaeufer |-> Len(sellers) + 1, AktiveKunden |-> active_customers,
                      PerformanceScore |-> score, Rang |-> 0]
          IN  /\ sellers' = Append(sellers, row)
              /\ detailed_df' = IF BelowThreshold(active_customers)
                                THEN detailed_df ELSE Append(detailed_df, row)
    /\ UNCHANGED <<upload_vars, performance_vars, df, grace_period_days, today, pc, error,
                   journey_vars, result_vars, summary, insights, sales_pc>>

\* the end of analyze_sales_performance_extended: the early return for an
\* empty table, else the Rang column and the sort by it
RankSellers ==
    /\ sales_pc = "collect"
    /\ IF Len(detailed_df) = 0
       THEN /\ sales_pc' = "empty"
            /\ summary' = << >>
            /\ insights' = EmptyInsights
            /\ UNCHANGED detailed_df
       ELSE \E ranked \in {SortByRang(WithRang(detailed_df))} :
              /\ detailed_df' = ranked
              /\ summary' = SummaryOf(ranked)
              /\ insights' = GenerateInsights(ranked)
              /\ sales_pc' = "ranked"
    /\ UNCHANGED <<upload_vars, performance_vars, df, grace_period_days, today, pc, error,
                   journey_vars, result_vars, sellers>>

\* The reference dates of last_12_full_months: every day of 2021 and 2022,
\* so that the windows reach back over a leap February and a year boundary
RefDates == DayNumber(2021, 1, 1)..DayNumber(2022, 12, 31)

InitMonths ==
    /\ raw = << >>
    /\ columns = {required_cols[i] : i \in 1..Len(required_cols)}
    /\ message = << >>
    /\ sales_performance = << >>
    /\ sales_summary = << >>
    /\ reactivation_rates = << >>
    /\ df = << >>
    /\ grace_period_days = DefaultGrace
    /\ today \in RefDates
    /\ pc = "months"
    /\ error = "none"
    /\ churn_events = << >>
    /\ reactivations = << >>
    /\ yearly_churn = << >>
    /\ current_year_churn = << >>
    /\ waterfall_data = << >>
    /\ months = << >>
    /\ v1_records = << >>
    /\ sellers = << >>
    /\ detailed_df = << >>
    /\ summary = << >>
    /\ insights = NoInsights
    /\ sales_pc = "collect"

\* months = last_12_full_months(ref_date) for the reference date today at
\* either time of day
Last12FullMonths ==
    /\ pc = "months"
    /\ \E time \in TimesOfDay : months' = last_12_full_months(Timestamp(today, time))
    /\ pc' = "months_done"
    /\ UNCHANGED <<upload_vars, performance_vars, df, grace_period_days, today, error, journey_vars, sales_vars,
                   yearly_churn, current_year_churn, waterfall_data, v1_records>>

NextMonths == Last12FullMonths

SpecMonths == InitMonths /\ [][NextMonths]_vars

\* The state before a run: an uploaded table with some set of columns
InitRun ==
    /\ raw = << >>
    /\ columns \in ColumnSets
    /\ message = << >>
    /\ sales_performance = << >>
    /\ sales_summary = << >>
    /\ reactivation_rates = << >>
    /\ df = << >>
    /\ grace_period_days = DefaultGrace
    /\ today = Today
    /\ pc = "upload"
    /\ error = "none"
    /\ churn_events = << >>
    /\ reactivations = << >>
    /\ yearly_churn = << >>
    /\ current_year_churn = << >>
    /\ waterfall_data = << >>
    /\ months = << >>
    /\ v1_records = << >>
    /\ sellers = << >>
    /\ detailed_df = << >>
    /\ summary = << >>
    /\ insights = NoInsights
    /\ sales_pc = "collect"

\* df = pd.read_excel(file): one more row of the uploaded table
UploadRow(U, max) ==
    /\ pc = "upload"
    /\ Len(raw) < max
    /\ \E r \in U : raw' = Append(raw, r)
    /\ UNCHANGED <<columns, message, performance_vars, df, grace_period_days, today, pc,
                   error, journey_vars, result_vars, sales_vars>>

UploadRunRow == UploadRow(RunRows, MaxRows)

UploadMapRow == UploadRow(MapRows, MaxMapRows)

\* the check of required_cols: st.error with the joined names and st.stop()
\* if a column is missing, else the call of churn_auswerten_v2
ValidateColumns ==
    /\ pc = "upload"
    /\ IF Len(MissingCols(columns)) > 0
       THEN /\ message' = MissingCols(columns)
            /\ error' = "Fehlende Spalten"
            /\ pc' = "stopped"
       ELSE /\ pc' = "filter_abo"
            /\ UNCHANGED <<message, error>>
    /\ UNCHANGED <<raw, columns, performance_vars, df, grace_period_days, today,
                   journey_vars, result_vars, sales_vars>>

\* The steps of the preparation change the table and the stage only.
\* df = df[df['Abo']...isin([...])].copy()
SelectAbo ==
    /\ pc = "filter_abo"
    /\ df' = FilterAbo(raw)
    /\ pc' = "map_group"
    /\ UNCHANGED <<upload_vars, performance_vars, grace_period_days, today, error,
                   journey_vars, result_vars, sales_vars>>

\* df['ProductGroup'] = df.apply(map_group, axis=1). On a table without
\* rows apply returns a table, not a column, and the assignment raises
\* ValueError.
AssignProductGroup ==
    /\ pc = "map_group"
    /\ IF Len(df) = 0
       THEN /\ error' = "ValueError"
            /\ pc' = "failed"
            /\ UNCHANGED df
       ELSE /\ df' = ApplyMapGroup(df)
            /\ pc' = "filter_group"
            /\ UNCHANGED error
    /\ UNCHANGED <<upload_vars, performance_vars, grace_period_days, today,
                   journey_vars, result_vars, sales_vars>>

\* df = df[df['ProductGroup'].isin(RELEVANT_GROUPS)]
SelectRelevantGroups ==
    /\ pc = "filter_group"
    /\ df' = IsinRelevantGroups(df)
    /\ pc' = "to_datetime"
    /\ UNCHANGED <<upload_vars, performance_vars, grace_period_days, today, error,
                   journey_vars, result_vars, sales_vars>>

\* df['Beginn'] = pd.to_datetime(...); df['Ende'] = pd.to_datetime(...)
ConvertDates ==
    /\ pc = "to_datetime"
    /\ df' = ParseDates(df)
    /\ pc' = "to_numeric"
    /\ UNCHANGED <<upload_vars, performance_vars, grace_period_days, today, error,
                   journey_vars, result_vars, sales_vars>>

\* df['Kundennummer'] = pd.to_numeric(...).fillna(0).astype(int)
ConvertKundennummer ==
    /\ pc = "to_numeric"
    /\ df' = CoerceKundennummer(df)
    /\ pc' = "journey"
    /\ UNCHANGED <<upload_vars, performance_vars, grace_period_days, today, error,
                   journey_vars, result_vars, sales_vars>>

\* one run of the app: upload, validation, churn_auswerten_v2
NextRun ==
    \/ UploadRunRow
    \/ ValidateColumns
    \/ SelectAbo
    \/ AssignProductGroup
    \/ SelectRelevantGroups
    \/ ConvertDates
    \/ ConvertKundennummer
    \/ AnalyzeCustomerJourney
    \/ CalculateYearlyChurn
    \/ CalculateCurrentYearChurn
    \/ CalculateWaterfallData
    \/ AnalyzeSalesPerformance
    \/ CalculateMonthly

SpecRun == InitRun /\ [][NextRun]_vars

\* the group mapper on uploaded tables: the run up to the relevant-group filter
NextMapGroup ==
    \/ UploadMapRow
    \/ ValidateColumns
    \/ SelectAbo
    \/ AssignProductGroup
    \/ SelectRelevantGroups

SpecMapGroup == InitRun /\ [][NextMapGroup]_vars

\* a table with the salesperson column
InitSales ==
    /\ raw = << >>
    /\ columns = {required_cols[i] : i \in 1..Len(required_cols)} \cup {SalesColumn}
    /\ message = << >>
    /\ sales_performance = << >>
    /\ sales_summary = << >>
    /\ reactivation_rates = << >>
    /\ df = << >>
    /\ grace_period_days = DefaultGrace
    /\ today = Today
    /\ pc = "load"
    /\ error = "none"
    /\ churn_events = << >>
    /\ reactivations = << >>
    /\ yearly_churn = << >>
    /\ current_year_churn = << >>
    /\ waterfall_data = << >>
    /\ months = << >>
    /\ v1_records = << >>
    /\ sellers = << >>
    /\ detailed_df = << >>
    /\ summary = << >>
    /\ insights = NoInsights
    /\ sales_pc = "collect"

\* a run on contracts with salespeople, and the reactivation quotes after it
NextSales ==
    \/ LoadSalesRow
    \/ AnalyzeCustomerJourney
    \/ CalculateYearlyChurn
    \/ CalculateCurrentYearChurn
    \/ CalculateWaterfallData
    \/ AnalyzeSalesPerformance
    \/ CalculateMonthly
    \/ CalculateReactivationRate

SpecSales == InitSales /\ [][NextSales]_vars

NextRank == AppendSeller \/ RankSellers

SpecRank == Init /\ [][NextRank]_vars

NextJourney == LoadJourneyRow \/ AnalyzeCustomerJourney

SpecJourney == Init /\ [][NextJourney]_vars

Next ==
    \/ LoadAggRow
    \/ AnalyzeCustomerJourney
    \/ CalculateYearlyChurn
    \/ CalculateCurrentYearChurn
    \/ CalculateWaterfallData
    \/ AnalyzeSalesPerformance
    \/ CalculateMonthly

Spec == Init /\ [][Next]_vars

(***************************************************************************)
(* Properties of analyze_customer_journey                                  *)
(***************************************************************************)
JourneyDone == pc # "load"

RegularKeys == {<<df[i].Kundennummer, df[i].ProductGroup>> :
                    i \in {j \in 1..Len(df) : ~IsReseller(df[j])}}

EventsAt(k, g, e) ==
    Count(churn_events,
          LAMBDA c : c.Kundennummer = k /\ c.ProductGroup = g /\ c.ChurnDatum = e)
    + Count(reactivations,
            LAMBDA r : r.Kundennummer = k /\ r.ProductGroup = g /\ r.Ende = e)

ContractsEndingAt(k, g, e) ==
    Count(df, LAMBDA r : r.Kundennummer = k /\ r.ProductGroup = g /\ r.Ende = e)

EndedContracts(k, g) ==
    Count(df, LAMBDA r : r.Kundennummer = k /\ r.ProductGroup = g /\ ~isna(r.Ende))

\* C1: partition completeness. After analyze_customer_journey, for every
\* non-reseller (customer, group) partition the events of that partition are
\* as many as its contracts with a non-null end date, end date by end date
\* (one event per ended contract, none for an open one), and there is no
\* event outside these partitions.
C1_PartitionCompleteness ==
    JourneyDone =>
        /\ \A key \in RegularKeys :
              /\ \A e \in JourneyDays :
                    EventsAt(key[1], key[2], e) = ContractsEndingAt(key[1], key[2], e)
              /\ Count(churn_events,
                       LAMBDA c : c.Kundennummer = key[1] /\ c.ProductGroup = key[2])
                 + Count(reactivations,
                         LAMBDA r : r.Kundennummer = key[1] /\ r.ProductGroup = key[2])
                 = EndedContracts(key[1], key[2])
        /\ Len(churn_events) + Len(reactivations)
             = Count(df, LAMBDA r : ~IsReseller(r) /\ ~isna(r.Ende))
        /\ \A i \in 1..Len(churn_events) : ~isna(churn_events[i].ChurnDatum)
        /\ \A i \in 1..Len(reactivations) : ~isna(reactivations[i].Ende)

\* a partition with two ended contracts and an open one: one churn event and
\* one reactivation
C1_Witness ==
    /\ JourneyDone
    /\ \E key \in RegularKeys :
        /\ EndedContracts(key[1], key[2]) = 2
        /\ Count(df, LAMBDA r : r.Kundennummer = key[1] /\ r.ProductGroup = key[2]) = 3
        /\ Len(churn_events) = 1
        /\ Len(reactivations) = 1

\* C2: mutual exclusivity. No (customer, group, end date) triple is both the
\* (Kundennummer, ProductGroup, ChurnDatum) of a churn event and the
\* (Kundennummer, ProductGroup, Ende) of a reactivation event.
C2_MutualExclusivity ==
    JourneyDone =>
        \A i \in 1..Len(churn_events) : \A j \in 1..Len(reactivations) :
            ~ /\ churn_events[i].Kundennummer = reactivations[j].Kundennummer
              /\ churn_events[i].ProductGroup = reactivations[j].ProductGroup
              /\ churn_events[i].ChurnDatum = reactivations[j].Ende

\* a contract that ended with a reactivation and a contract of the same
\* partition that ended on the same day with a true churn
C2_Reached ==
    /\ JourneyDone
    /\ Len(churn_events) > 0
    /\ Len(reactivations) > 0

\* The non-reseller contracts in the order of the input table, and for the
\* contract at index i the follow-on contracts: same customer and group,
\* sorted after it, starting after its end.
Regular == DropResellers(df)

FollowOns(i) ==
    {j \in 1..Len(Regular) :
        /\ SameKey(Regular[j], Regular[i])
        /\ DateGt(Regular[j].Beginn, Regular[i].Ende)
        /\ SortPos(Regular, j) > SortPos(Regular, i)}

EarliestGap(i) == SetMin({Regular[j].Beginn : j \in FollowOns(i)}) - Regular[i].Ende

EndsWithGap(k, g, e, gap) ==
    {i \in 1..Len(Regular) :
        /\ Regular[i].Kundennummer = k /\ Regular[i].ProductGroup = g
        /\ Regular[i].Ende = e
        /\ FollowOns(i) # {}
        /\ EarliestGap(i) = gap}

\* C3: grace-period boundary. For every partition and end date, the contracts
\* whose earliest follow-on starts exactly grace_period_days after the end
\* are as many as the reactivation events of that end with that gap, the
\* contracts whose earliest follow-on starts grace_period_days + 1 days after
\* the end all have a long-gap churn event, and no reactivation event has a
\* gap above the grace period.
C3_GraceBoundary ==
    JourneyDone =>
        /\ \A key \in RegularKeys : \A e \in JourneyDays :
            /\ Cardinality(EndsWithGap(key[1], key[2], e, grace_period_days))
                 = Count(reactivations,
                         LAMBDA r : /\ r.Kundennummer = key[1] /\ r.ProductGroup = key[2]
                                    /\ r.Ende = e
                                    /\ r.Luecke_Tage = grace_period_days
                                    /\ r.NeuerBeginn = e + grace_period_days
                                    /\ r.Typ = TypReactivation)
            /\ Cardinality(EndsWithGap(key[1], key[2], e, grace_period_days + 1))
                 <= Count(churn_events,
                          LAMBDA c : /\ c.Kundennummer = key[1] /\ c.ProductGroup = key[2]
                                     /\ c.ChurnDatum = e
                                     /\ c.Typ = TypLongGap)
            /\ Cardinality(EndsWithGap(key[1], key[2], e, grace_period_days + 1)) > 0
                 => Count(reactivations,
                          LAMBDA r : /\ r.Kundennummer = key[1] /\ r.ProductGroup = key[2]
                                     /\ r.Ende = e) 
                    = Cardinality({i \in 1..Len(Regular) :
                                     /\ Regular[i].Kundennummer = key[1]
                                     /\ Regular[i].ProductGroup = key[2]
                                     /\ Regular[i].Ende = e
                                     /\ FollowOns(i) # {}
                                     /\ EarliestGap(i) <= grace_period_days})
        /\ \A j \in 1..Len(reactivations) :
              reactivations[j].Luecke_Tage <= grace_period_days

\* one partition holds a contract with a gap of exactly the grace period
\* (reactivated) and one with a gap of one day more (long-gap churn)
C3_Witness ==
    /\ JourneyDone
    /\ grace_period_days > 0
    /\ \E i, j \in 1..Len(Regular) :
        /\ SameKey(Regular[i], Regular[j])
        /\ ~isna(Regular[i].Ende) /\ ~isna(Regular[j].Ende)
        /\ FollowOns(i) # {} /\ EarliestGap(i) = grace_period_days
        /\ FollowOns(j) # {} /\ EarliestGap(j) = grace_period_days + 1
        /\ DateLe(Regular[i].Beginn, Regular[i].Ende)
        /\ DateLe(Regular[j].Beginn, Regular[j].Ende)
    /\ Len(reactivations) = 1
    /\ Len(churn_events) = 1
    /\ churn_events[1].Typ = TypLongGap

SingleContract(k, g) ==
    Count(df, LAMBDA r : r.Kundennummer = k /\ r.ProductGroup = g) = 1

\* C4: no follow-on. A non-reseller (customer, group) with exactly one
\* contract, whose end date is non-null, has exactly one churn event, tagged
\* as having no follow-on contract and dated at that end, and no
\* reactivation event.
C4_NoFollowOn ==
    JourneyDone =>
        \A key \in RegularKeys :
            (SingleContract(key[1], key[2]) /\ EndedContracts(key[1], key[2]) = 1) =>
                /\ Count(churn_events,
                         LAMBDA c : c.Kundennummer = key[1] /\ c.ProductGroup = key[2]) = 1
                /\ Count(churn_events,
                         LAMBDA c : /\ c.Kundennummer = key[1] /\ c.ProductGroup = key[2]
                                    /\ c.Typ = TypNoFollowOn
                                    /\ ContractsEndingAt(key[1], key[2], c.ChurnDatum) = 1) = 1
                /\ Count(reactivations,
                         LAMBDA r : r.Kundennummer = key[1] /\ r.ProductGroup = key[2]) = 0

\* a customer with a single ended contract in one group next to contracts of
\* the same customer in another group
C4_Witness ==
    /\ JourneyDone
    /\ \E key \in RegularKeys :
        /\ SingleContract(key[1], key[2])
        /\ EndedContracts(key[1], key[2]) = 1
        /\ \E other \in RegularKeys : other[1] = key[1] /\ other[2] # key[2]
    /\ Len(df) >= 3

RemoveAt(d, i) == SubSeq(d, 1, i - 1) \o SubSeq(d, i + 1, Len(d))

\* C5: reseller isolation. Removing any one reseller row from the table
\* leaves churn_events and reactivation_events as they are (so any two tables
\* with the same non-reseller rows give the same events), and no event
\* carries a reseller customer id.
C5_ResellerIsolation ==
    JourneyDone =>
        /\ \A i \in 1..Len(df) :
              IsReseller(df[i]) =>
                /\ JourneyChurnEvents(RemoveAt(df, i), grace_period_days) = churn_events
                /\ JourneyReactivations(RemoveAt(df, i), grace_period_days) = reactivations
        /\ \A i \in 1..Len(churn_events) :
              churn_events[i].Kundennummer \notin RESELLER_CUSTOMERS
        /\ \A i \in 1..Len(reactivations) :
              reactivations[i].Kundennummer \notin RESELLER_CUSTOMERS

\* a table with an ended reseller contract between non-reseller contracts
\* that produce an event
C5_Witness ==
    /\ JourneyDone
    /\ \E i \in 1..Len(df) : IsReseller(df[i]) /\ ~isna(df[i].Ende)
    /\ \E i \in 1..Len(df) : ~IsReseller(df[i]) /\ ~isna(df[i].Ende)
    /\ Len(churn_events) + Len(reactivations) > 0

(***************************************************************************)
(* Properties of the aggregators                                           *)
(***************************************************************************)
RECURSIVE SumTo(_, _, _)
SumTo(s, F(_), n) == IF n = 0 THEN 0 ELSE SumTo(s, F, n - 1) + F(s[n])

SumOver(s, F(_)) == SumTo(s, F, Len(s))

GetStart(w) == w.Start
GetNeukunden(w) == w.Neukunden
GetVerluste(w) == w.Verluste
GetEnde(w) == w.Ende

\* C6: waterfall identity. In every row of calculate_waterfall_data, for
\* every year, Start + Neukunden - total churned = Ende with total churned
\* the negated Verluste column, and the column sums over the groups satisfy
\* the same identity.
C6_WaterfallIdentity ==
    /\ \A i \in 1..Len(waterfall_data) :
          LET w == waterfall_data[i]
          IN  /\ w.Verluste <= 0
              /\ w.Start + w.Neukunden - (-w.Verluste) = w.Ende
    /\ SumOver(waterfall_data, GetStart) + SumOver(waterfall_data, GetNeukunden)
          - (-SumOver(waterfall_data, GetVerluste))
        = SumOver(waterfall_data, GetEnde)

\* two groups in the waterfall, one of them with customers at the start of
\* the year, new customers, and losses of a regular customer and a reseller
C6_Witness ==
    /\ Len(waterfall_data) = 2
    /\ \E i \in 1..Len(waterfall_data) :
        /\ waterfall_data[i].Start > 0
        /\ waterfall_data[i].Neukunden > 0
        /\ waterfall_data[i].Verluste <= -2
        /\ \E j \in 1..Len(churn_events) :
              churn_events[j].ProductGroup = waterfall_data[i].Gruppe
        /\ \E j \in 1..Len(df) :
              /\ IsReseller(df[j]) /\ df[j].ProductGroup = waterfall_data[i].Gruppe
              /\ EndedIn(df[j], YearStart(YearOf(today)), today)

\* the window of row i of v1_records: the rows of a group follow the months
WindowOf(i) == months[((i - 1) % 12) + 1]

\* the active and the churned count the loop computed for row i
ActiveOf(i) == MonthlyActive(GroupDf(df, v1_records[i].Gruppe), WindowOf(i)[1])

ChurnedOf(i) ==
    MonthlyChurned(GroupDf(df, v1_records[i].Gruppe), WindowOf(i)[1], WindowOf(i)[2])

C7_YearlyBounded ==
    \A i \in 1..Len(yearly_churn) :
        yearly_churn[i].GesamtAktiv > 0 =>
            /\ 0 <= yearly_churn[i].JahresChurn /\ yearly_churn[i].JahresChurn <= 1000
            /\ yearly_churn[i].GesamtChurned <= yearly_churn[i].GesamtAktiv

C7_CurrentYearBounded ==
    \A i \in 1..Len(current_year_churn) :
        current_year_churn[i].AktiveKunden > 0 =>
            /\ 0 <= current_year_churn[i].ChurnRate /\ current_year_churn[i].ChurnRate <= 1000
            /\ current_year_churn[i].Verluste <= current_year_churn[i].AktiveKunden

C7_MonthlyBounded ==
    \A i \in 1..Len(v1_records) :
        ActiveOf(i) > 0 =>
            /\ 0 <= v1_records[i].OriginalChurn /\ v1_records[i].OriginalChurn <= 1000

\* C7: rate boundedness. Every rate of the yearly, current-year and monthly
\* aggregators whose active count is above 0 lies between 0 and 100 percent
\* (0 and 1000 tenths): the churned count of a window is at most its active
\* count.
C7_RateBounded == C7_YearlyBounded /\ C7_CurrentYearBounded /\ C7_MonthlyBounded

\* C8: division by zero. Every row of the yearly, current-year and monthly
\* aggregators whose active count is 0 reports the rate 0.0, whatever its
\* churned count, and no division by zero is raised.
C8_ZeroActiveZeroRate ==
    /\ \A i \in 1..Len(yearly_churn) :
          yearly_churn[i].GesamtAktiv = 0 => yearly_churn[i].JahresChurn = 0
    /\ \A i \in 1..Len(current_year_churn) :
          current_year_churn[i].AktiveKunden = 0 => current_year_churn[i].ChurnRate = 0
    /\ \A i \in 1..Len(v1_records) :
          ActiveOf(i) = 0
              => v1_records[i].OriginalChurn = 0
    /\ error # "ZeroDivisionError"

\* a finished run in which each of the three aggregators has a window with
\* churned contracts and no active one
C8_Witness ==
    /\ pc = "done"
    /\ \E i \in 1..Len(yearly_churn) :
          yearly_churn[i].GesamtAktiv = 0 /\ yearly_churn[i].GesamtChurned > 0
    /\ \E i \in 1..Len(current_year_churn) :
          current_year_churn[i].AktiveKunden = 0 /\ current_year_churn[i].Verluste > 0
    /\ \E i \in 1..Len(v1_records) :
          /\ ActiveOf(i) = 0
          /\ ChurnedOf(i) > 0

YearlyRowOf(year, group) ==
    CHOOSE y \in {yearly_churn[i] : i \in 1..Len(yearly_churn)} :
        y.Jahr = year /\ y.Gruppe = group

CurrentRowOf(group) ==
    CHOOSE c \in {current_year_churn[i] : i \in 1..Len(current_year_churn)} :
        c.Produktgruppe = group

\* C10: the current-year row of every group with at least one contract
\* equals the yearly row of the current year of that group in its active
\* count, its churned count and its rate.
C10_CurrentEqualsYearly ==
    pc \in {"waterfall", "monthly", "done"} =>
        \A n \in 1..Len(GroupsWithRows(df)) :
            LET group == GroupsWithRows(df)[n]
                c == CurrentRowOf(group)
                y == YearlyRowOf(YearOf(today), group)
            IN  /\ c.AktiveKunden = y.GesamtAktiv
                /\ c.Verluste = y.GesamtChurned
                /\ c.ChurnRate = y.JahresChurn

(***************************************************************************)
(* Properties of the ranking                                               *)
(***************************************************************************)
ScoresUsed == {detailed_df[i].PerformanceScore : i \in 1..Len(detailed_df)}

RanksUsed == {detailed_df[i].Rang : i \in 1..Len(detailed_df)}

\* C9: dense ranking. After the ranking, salespeople with equal score share
\* a rank, a higher score has a smaller rank, the next lower distinct score
\* has the rank of the score above it plus 1, and the ranks used are exactly
\* 1..k for k distinct scores.
C9_DenseRanking ==
    sales_pc = "ranked" =>
        /\ \A i, j \in 1..Len(detailed_df) :
              /\ detailed_df[i].PerformanceScore = detailed_df[j].PerformanceScore
                    => detailed_df[i].Rang = detailed_df[j].Rang
              /\ detailed_df[i].PerformanceScore > detailed_df[j].PerformanceScore
                    => detailed_df[i].Rang < detailed_df[j].Rang
              /\ ( /\ detailed_df[i].PerformanceScore > detailed_df[j].PerformanceScore
                    /\ ~\E k \in 1..Len(detailed_df) :
                          /\ detailed_df[k].PerformanceScore < detailed_df[i].PerformanceScore
                          /\ detailed_df[k].PerformanceScore > detailed_df[j].PerformanceScore )
                    => detailed_df[j].Rang = detailed_df[i].Rang + 1
        /\ RanksUsed = 1..Cardinality(ScoresUsed)

(***************************************************************************)
(* Rows with an unparsed start date                                        *)
(***************************************************************************)
\* the rows of a table whose start date was parsed
ParsedStart(d) == SelectSeq(d, LAMBDA r : ~isna(r.Beginn))

\* C14: rows failing date parsing are excluded. The churn events and the
\* reactivation events of a table are those of the table without its rows
\* whose start date is null: such a row produces no event and is no
\* follow-on contract.
C14_UnparsedStartExcluded ==
    JourneyDone =>
        /\ churn_events = JourneyChurnEvents(ParsedStart(df), grace_period_days)
        /\ reactivations = JourneyReactivations(ParsedStart(df), grace_period_days)

(***************************************************************************)
(* Follow-on selection                                                     *)
(***************************************************************************)
\* the contracts of a partition ending at e, by whether they have follow-ons
EndsWithoutFollowOn(k, g, e) ==
    {i \in 1..Len(Regular) :
        /\ Regular[i].Kundennummer = k /\ Regular[i].ProductGroup = g
        /\ Regular[i].Ende = e
        /\ FollowOns(i) = {}}

EndsWithNewStart(k, g, e, ns) ==
    {i \in 1..Len(Regular) :
        /\ Regular[i].Kundennummer = k /\ Regular[i].ProductGroup = g
        /\ Regular[i].Ende = e
        /\ FollowOns(i) # {}
        /\ \A j \in FollowOns(i) : Regular[j].Beginn >= ns
        /\ \E j \in FollowOns(i) : Regular[j].Beginn = ns}

\* C16: follow-on selection. The follow-on candidates of a contract are the
\* contracts of its partition sorted after it that start strictly after its
\* end date E. Per partition and end date, the no-follow-on churn events are
\* as many as the contracts without a candidate; the reactivation events
\* with a given new start are as many as the contracts whose earliest
\* candidate starts that day within the grace period (later ones give a
\* long-gap churn event); and every reactivation event records a new start
\* after E and the gap new start - E in days.
C16_FollowOnSelection ==
    JourneyDone =>
        /\ \A key \in RegularKeys : \A e \in JourneyDays :
            /\ Cardinality(EndsWithoutFollowOn(key[1], key[2], e))
                 = Count(churn_events,
                         LAMBDA c : /\ c.Kundennummer = key[1] /\ c.ProductGroup = key[2]
                                    /\ c.ChurnDatum = e /\ c.Typ = TypNoFollowOn)
            /\ \A ns \in JourneyDays :
                /\ ns - e <= grace_period_days =>
                     Cardinality(EndsWithNewStart(key[1], key[2], e, ns))
                       = Count(reactivations,
                               LAMBDA r : /\ r.Kundennummer = key[1]
                                          /\ r.ProductGroup = key[2]
                                          /\ r.Ende = e /\ r.NeuerBeginn = ns)
                /\ ns - e > grace_period_days =>
                     Count(reactivations,
                           LAMBDA r : /\ r.Kundennummer = key[1] /\ r.ProductGroup = key[2]
                                      /\ r.Ende = e /\ r.NeuerBeginn = ns) = 0
            /\ Cardinality({i \in 1..Len(Regular) :
                    /\ Regular[i].Kundennummer = key[1] /\ Regular[i].ProductGroup = key[2]
                    /\ Regular[i].Ende = e
                    /\ FollowOns(i) # {} /\ EarliestGap(i) > grace_period_days})
                 = Count(churn_events,
                         LAMBDA c : /\ c.Kundennummer = key[1] /\ c.ProductGroup = key[2]
                                    /\ c.ChurnDatum = e /\ c.Typ = TypLongGap)
        /\ \A n \in 1..Len(reactivations) :
            /\ reactivations[n].NeuerBeginn > reactivations[n].Ende
            /\ reactivations[n].Luecke_Tage
                 = reactivations[n].NeuerBeginn - reactivations[n].Ende

\* a contract ending at E is reactivated by a later contract although a
\* contract sorted after it starts on E itself, and another contract has two
\* candidates with different start dates
C16_Witness ==
    /\ JourneyDone
    /\ \E i, j \in 1..Len(Regular) :
        /\ SameKey(Regular[i], Regular[j])
        /\ SortPos(Regular, j) > SortPos(Regular, i)
        /\ ~isna(Regular[i].Ende)
        /\ Regular[j].Beginn = Regular[i].Ende
        /\ FollowOns(i) # {}
        /\ j \notin FollowOns(i)
        /\ \E n \in 1..Len(reactivations) :
            /\ reactivations[n].Ende = Regular[i].Ende
            /\ reactivations[n].NeuerBeginn = Regular[i].Ende + 1
            /\ reactivations[n].Luecke_Tage = 1

\* a contract with two candidates of different start dates: the earlier one
\* is recorded
C16_WitnessMin ==
    /\ JourneyDone
    /\ \E i \in 1..Len(Regular) :
        /\ \E j, l \in FollowOns(i) : Regular[j].Beginn < Regular[l].Beginn
        /\ \E n \in 1..Len(reactivations) :
            /\ reactivations[n].Ende = Regular[i].Ende
            /\ reactivations[n].NeuerBeginn = Regular[i].Ende + 1

(***************************************************************************)
(* Yearly rate composition                                                 *)
(***************************************************************************)
YearlyDone == pc \in {"current_year", "waterfall", "sales", "monthly", "done"}

\* the last day of the window of a year: today for the current year
WindowEnd(year) == IF year = YearOf(today) THEN today ELSE DayNumber(year, 12, 31)

InWindow(d, year) == ~isna(d) /\ DayNumber(year, 1, 1) <= d /\ d <= WindowEnd(year)

\* C17: yearly rate composition. calculate_yearly_churn emits one row per
\* year in start_year..current year and group with rows, and no other; in
\* every row GesamtAktiv = AktiveKunden + AktiveReseller, GesamtChurned =
\* ChurnedKunden + ChurnedReseller, ChurnedKunden is the number of distinct
\* non-reseller customers with a churn event of the group dated from Jan 1
\* to the window end (today for the current year, Dec 31 before), and
\* ChurnedReseller is the number of reseller contracts of the group ending in
\* the window.
C17_YearlyComposition ==
    /\ YearlyDone =>
          {<<yearly_churn[n].Jahr, yearly_churn[n].Gruppe>> : n \in 1..Len(yearly_churn)}
            = (start_year..YearOf(today)) \X {df[i].ProductGroup : i \in 1..Len(df)}
    /\ YearlyDone =>
          Len(yearly_churn)
            = (YearOf(today) - start_year + 1)
                * Cardinality({df[i].ProductGroup : i \in 1..Len(df)})
    /\ \A n \in 1..Len(yearly_churn) :
        LET row == yearly_churn[n]
        IN  /\ row.Jahr \in start_year..YearOf(today)
            /\ row.GesamtAktiv = row.AktiveKunden + row.AktiveReseller
            /\ row.GesamtChurned = row.ChurnedKunden + row.ChurnedReseller
            /\ row.ChurnedKunden
                 = Cardinality({churn_events[j].Kundennummer :
                       j \in {m \in 1..Len(churn_events) :
                                /\ churn_events[m].ProductGroup = row.Gruppe
                                /\ churn_events[m].Kundennummer \notin RESELLER_CUSTOMERS
                                /\ InWindow(churn_events[m].ChurnDatum, row.Jahr)}})
            /\ row.ChurnedReseller
                 = Cardinality({i \in 1..Len(df) :
                        /\ df[i].Kundennummer \in RESELLER_CUSTOMERS
                        /\ df[i].ProductGroup = row.Gruppe
                        /\ InWindow(df[i].Ende, row.Jahr)})

\* the rows of 2020 and 2021 of one group: a regular customer churned in
\* 2020, another churn event of the current year is dated after today and
\* not counted, and a reseller contract ended inside the current window
C17_Witness ==
    /\ YearlyDone
    /\ \E a, b \in 1..Len(yearly_churn) :
        /\ yearly_churn[a].Gruppe = yearly_churn[b].Gruppe
        /\ yearly_churn[a].Jahr = YearOf(today) - 1
        /\ yearly_churn[a].ChurnedKunden > 0
        /\ yearly_churn[b].Jahr = YearOf(today)
        /\ yearly_churn[b].ChurnedKunden = 0
        /\ yearly_churn[b].ChurnedReseller > 0
        /\ \E m \in 1..Len(churn_events) :
              /\ churn_events[m].ProductGroup = yearly_churn[b].Gruppe
              /\ churn_events[m].ChurnDatum > today

(***************************************************************************)
(* Active test                                                             *)
(***************************************************************************)
\* a contract is active at D: started strictly before D, open or ended on
\* or after D
IsActiveAt(r, D) == r.Beginn # NaT /\ r.Beginn < D /\ (r.Ende = NaT \/ r.Ende >= D)

\* the active count of a group at D: regular customers once each, reseller
\* contracts one by one
ExpectedActive(group, D) ==
    Cardinality({df[i].Kundennummer :
        i \in {j \in 1..Len(df) :
                 /\ df[j].ProductGroup = group
                 /\ df[j].Kundennummer \notin RESELLER_CUSTOMERS
                 /\ IsActiveAt(df[j], D)}})
    + Cardinality({j \in 1..Len(df) :
                 /\ df[j].ProductGroup = group
                 /\ df[j].Kundennummer \in RESELLER_CUSTOMERS
                 /\ IsActiveAt(df[j], D)})

C15_YearlyActive ==
    \A n \in 1..Len(yearly_churn) :
        yearly_churn[n].GesamtAktiv
          = ExpectedActive(yearly_churn[n].Gruppe, DayNumber(yearly_churn[n].Jahr, 1, 1))

C15_CurrentYearActive ==
    \A n \in 1..Len(current_year_churn) :
        current_year_churn[n].AktiveKunden
          = ExpectedActive(current_year_churn[n].Produktgruppe, DayNumber(YearOf(today), 1, 1))

C15_WaterfallActive ==
    \E year \in start_year..YearOf(today) :
        \A n \in 1..Len(waterfall_data) :
            waterfall_data[n].Start
              = ExpectedActive(waterfall_data[n].Gruppe, DayNumber(year, 1, 1))

\* C15: active test. In the yearly, the current-year and the waterfall
\* aggregator the active count of a group at the window start D is the
\* number of distinct non-reseller customers with a contract active at D
\* plus the number of reseller contracts active at D, a contract being
\* active at D iff it started strictly before D and is open or ended on or
\* after D.
C15_ActiveTest == C15_YearlyActive /\ C15_CurrentYearActive /\ C15_WaterfallActive

(***************************************************************************)
(* Monthly windows                                                         *)
(***************************************************************************)
MonthsDone == pc = "months_done"

\* the days of the bounds of window n
StartDay(n) == months[n][1][1]

EndDay(n) == months[n][2][1]

\* C18: monthly windows. last_12_full_months returns 12 windows; each runs
\* from the first day of a calendar month to the last day of the same
\* month; each window starts the day after the previous one ends (the next
\* month, also across a year boundary), and the last window ends the day
\* before the first day of the reference date's month.
C18_MonthlyWindows ==
    MonthsDone =>
        /\ Len(months) = 12
        /\ \A n \in 1..12 :
            /\ DayOf(StartDay(n)) = 1
            /\ StartDay(n) <= EndDay(n)
            /\ MonthOf(StartDay(n)) = MonthOf(EndDay(n))
            /\ YearOf(StartDay(n)) = YearOf(EndDay(n))
            /\ DayOf(EndDay(n) + 1) = 1
        /\ \A n \in 1..11 : StartDay(n + 1) = EndDay(n) + 1
        /\ EndDay(12) + 1 = DayNumber(YearOf(today), MonthOf(today), 1)

\* the windows of the reference date 2021-03-31: the day 31 is clamped on
\* the way back, the first window is March 2020, the windows cross the year
\* boundary and the last one is February 2021
C18_Witness ==
    /\ MonthsDone
    /\ today = DayNumber(2021, 3, 31)
    /\ StartDay(1) = DayNumber(2020, 3, 1)
    /\ EndDay(10) = DayNumber(2020, 12, 31)
    /\ StartDay(11) = DayNumber(2021, 1, 1)
    /\ EndDay(12) = DayNumber(2021, 2, 28)

\* the windows of the reference date 2021-02-15 begin with the leap
\* February of 2020
C18_WitnessLeap ==
    /\ MonthsDone
    /\ today = DayNumber(2021, 2, 15)
    /\ StartDay(1) = DayNumber(2020, 2, 1)
    /\ EndDay(1) = DayNumber(2020, 2, 29)

(***************************************************************************)
(* Monthly baseline                                                        *)
(***************************************************************************)
\* the contracts of a group that ended from the first to the last day of
\* the month mo = <<year, month>>
EndedInMonth(group, mo) ==
    Cardinality({j \in 1..Len(df) :
        /\ df[j].ProductGroup = group
        /\ df[j].Ende # NaT
        /\ DayNumber(mo[1], mo[2], 1) <= df[j].Ende
        /\ df[j].Ende <= DayNumber(mo[1], mo[2], DaysInMonth(mo[1], mo[2]))})

\* the contracts of a group active at the first day of the month mo
ActiveAtMonthStart(group, mo) ==
    Cardinality({j \in 1..Len(df) :
        /\ df[j].ProductGroup = group
        /\ IsActiveAt(df[j], DayNumber(mo[1], mo[2], 1))})

\* the monthly table is a function of the dataset and the windows, not of
\* the events of the journey analysis or the grace period
C19_GraceIndependent ==
    pc = "done" => v1_records = MonthlyRecords(df, months)

C19_ContractLevelRate ==
    \A i \in 1..Len(v1_records) :
        LET ended == EndedInMonth(v1_records[i].Gruppe, v1_records[i].Monat)
            active == ActiveAtMonthStart(v1_records[i].Gruppe, v1_records[i].Monat)
        IN  v1_records[i].OriginalChurn
              = IF active > 0 THEN RoundTenths(ended, active) ELSE 0

\* C19: monthly baseline. The monthly rate table depends on the dataset
\* only, not on the grace period or the journey events, and each rate is
\* the number of contracts of the group with an end date inside the month
\* over the number of contracts of the group active at the month's first
\* day, times 100, counted per contract for every customer.
C19_MonthlyBaseline == C19_GraceIndependent /\ C19_ContractLevelRate

(***************************************************************************)
(* Missing columns                                                         *)
(***************************************************************************)
RequiredColumns == {"Abo", "Produktkategorie", "Produkt", "Beginn", "Ende", "Kundennummer"}

NoResultTable ==
    /\ df = << >>
    /\ churn_events = << >> /\ reactivations = << >>
    /\ yearly_churn = << >> /\ current_year_churn = << >> /\ waterfall_data = << >>
    /\ sales_performance = << >> /\ sales_summary = << >>
    /\ months = << >> /\ v1_records = << >>

\* C11: missing required columns. A run on a table lacking a required
\* column never gets past the validation and produces no table; when it
\* stops, the one message lists every missing required column once and
\* nothing else. The run stops with that message only if a required column
\* is missing: without the salesperson column it goes on and both sales
\* tables are empty.
C11_MissingColumns ==
    /\ ~(RequiredColumns \subseteq columns) =>
          /\ pc \in {"upload", "stopped"}
          /\ NoResultTable
    /\ pc = "stopped" =>
          /\ error = "Fehlende Spalten"
          /\ Len(message) > 0
          /\ {message[i] : i \in 1..Len(message)} = RequiredColumns \ columns
          /\ Len(message) = Cardinality(RequiredColumns \ columns)
    /\ pc # "stopped" => (error # "Fehlende Spalten" /\ message = << >>)
    /\ ("Zugewiesen an" \notin columns /\ pc \in {"monthly", "done"}) =>
          (sales_performance = << >> /\ sales_summary = << >>)

\* a run stopped on an uploaded table with rows that lacks two required columns
C11_Witness ==
    /\ pc = "stopped"
    /\ Len(raw) > 0
    /\ Len(message) = 2
    /\ message[1] # message[2]

\* a finished run on a table without the salesperson column
C11_WitnessOptional ==
    /\ pc = "done"
    /\ "Zugewiesen an" \notin columns
    /\ Len(yearly_churn) > 0
    /\ sales_performance = << >>

(***************************************************************************)
(* Pipeline order                                                          *)
(***************************************************************************)
RelevantGroups ==
    {"Firmendaten Manager", "Website", "SEO", "Google Ads", "Postings", "Superkombis",
     "Social Media Werbeanzeigen"}

\* the position of a stage in a run
StageNo(stage) ==
    CASE stage = "upload" -> 0
      [] stage = "filter_abo" -> 1
      [] stage = "map_group" -> 2
      [] stage = "filter_group" -> 3
      [] stage = "to_datetime" -> 4
      [] stage = "to_numeric" -> 5
      [] stage = "journey" -> 6
      [] stage = "yearly" -> 7
      [] stage = "current_year" -> 8
      [] stage = "waterfall" -> 9
      [] stage = "sales" -> 10
      [] stage = "monthly" -> 11
      [] stage = "done" -> 12
      [] OTHER -> 13

\* from date parsing on, the table holds rows of relevant groups only, and
\* so do the events and the rows of the result tables
C12_OnlyRelevantGroups ==
    /\ (StageNo(pc) \in 4..12 \/ (pc = "failed" /\ Len(df) > 0)) =>
          \A i \in 1..Len(df) : df[i].ProductGroup \in RelevantGroups
    /\ \A i \in 1..Len(churn_events) : churn_events[i].ProductGroup \in RelevantGroups
    /\ \A i \in 1..Len(reactivations) : reactivations[i].ProductGroup \in RelevantGroups
    /\ \A i \in 1..Len(yearly_churn) : yearly_churn[i].Gruppe \in RelevantGroups
    /\ \A i \in 1..Len(waterfall_data) : waterfall_data[i].Gruppe \in RelevantGroups
    /\ \A i \in 1..Len(v1_records) : v1_records[i].Gruppe \in RelevantGroups
    /\ \A i \in 1..Len(sales_performance) :
          sales_performance[i].Produktgruppe \in RelevantGroups

\* a step that changes the stage goes to the next stage or ends the run
C12_StageOrder ==
    pc' # pc => (pc' \in {"stopped", "failed"} \/ StageNo(pc') = StageNo(pc) + 1)

\* C12: pipeline order. Every step of a run leads to the next stage of
\* Abo filter, group mapping, relevant-group filter, date parsing,
\* customer-id coercion, journey analysis, aggregators (or ends the run),
\* and from date parsing on no row of a group outside the relevant-group
\* list is in the table, in the events or in a result table.
C12_PipelineOrder == []C12_OnlyRelevantGroups /\ [][C12_StageOrder]_vars

\* a finished run on a table with a row of an unmapped Social Media product
\* and a row of an irrelevant category, both dropped, and a row that stayed
C12_Witness ==
    /\ pc = "done"
    /\ \E i, j \in 1..Len(raw) :
        /\ raw[i].Abo = "1" /\ raw[i].Produkt = "Social Media Sonstiges"
        /\ raw[j].Abo = "Ja" /\ raw[j].Produktkategorie = "Hosting"
    /\ Len(df) = 1
    /\ Len(yearly_churn) > 0

(***************************************************************************)
(* Group mapping                                                           *)
(***************************************************************************)
PostingPackages ==
    {"Social Media Postingpaket 12 Postings", "Social Media Postingpaket 24 Postings",
     "Social Media Postingpaket 52 Postings"}

ComboPackages ==
    {"Social Media SUPERKOMBI 12er", "Social Media SUPERKOMBI 12er (alt)",
     "Social Media SUPERKOMBI 24er", "Social Media SUPERKOMBI 24er (alt)",
     "Social Media SUPERKOMBI 52er", "Social Media SUPERKOMBI 52er (alt)"}

AdBudgets == {"Social Media Werbeanzeigen Kampagnenbudget"}

\* C13: group mapping. After the mapping step every row of another category
\* than Social Media has its category as group; a Social Media row has the
\* group Postings, Superkombis or Social Media Werbeanzeigen exactly when
\* its product is a posting package, a combo package ("(alt)" included) or
\* the ad budget, and the group Unbekannt exactly when it is none of them;
\* the three product sets are pairwise disjoint.
C13_GroupMapping ==
    /\ postings \cap superk = {} /\ postings \cap ads = {} /\ superk \cap ads = {}
    /\ pc \in {"filter_group", "to_datetime"} =>
        \A i \in 1..Len(df) :
            LET row == df[i]
            IN  /\ row.Produktkategorie # "Social Media" =>
                      row.ProductGroup = row.Produktkategorie
                /\ row.Produktkategorie = "Social Media" =>
                      /\ row.ProductGroup = "Postings" <=> row.Produkt \in PostingPackages
                      /\ row.ProductGroup = "Superkombis" <=> row.Produkt \in ComboPackages
                      /\ row.ProductGroup = "Social Media Werbeanzeigen"
                            <=> row.Produkt \in AdBudgets
                      /\ row.ProductGroup = "Unbekannt"
                            <=> row.Produkt \notin
                                  (PostingPackages \cup ComboPackages \cup AdBudgets)

\* a mapped table with a legacy combo package and an unmapped product of the
\* Social Media category
C13_Witness ==
    /\ pc = "filter_group"
    /\ \E i, j \in 1..Len(df) :
        /\ df[i].Produktkategorie = "Social Media"
        /\ df[i].Produkt = "Social Media SUPERKOMBI 24er (alt)"
        /\ df[i].ProductGroup = "Superkombis"
        /\ df[j].Produktkategorie = "Social Media"
        /\ df[j].Produkt = "Social Media Sonstiges"
        /\ df[j].ProductGroup = "Unbekannt"

(***************************************************************************)
(* Ranking threshold                                                       *)
(***************************************************************************)
\* the salespeople of the dataset with at least 50 active customers
Qualified == {i \in 1..Len(sellers) : sellers[i].AktiveKunden >= 50}

NamesOf(rows) == {rows[i].Verkaeufer : i \in 1..Len(rows)}

InsightNames ==
    {insights.top_performers[i] : i \in 1..Len(insights.top_performers)}
    \cup {insights.need_attention[i] : i \in 1..Len(insights.need_attention)}

\* C20: ranking threshold. When the function has ranked, the detail table
\* and the summary hold exactly the salespeople with at least 50 active
\* customers, the insights name none of the others, and the rank of a
\* salesperson is one more than the number of salespeople with at least 50
\* active customers and a higher score; when nobody has 50, both tables are
\* empty and the insights are the message.
C20_RankingThreshold ==
    /\ sales_pc = "ranked" =>
          /\ Qualified # {}
          /\ NamesOf(detailed_df) = {sellers[i].Verkaeufer : i \in Qualified}
          /\ Len(detailed_df) = Cardinality(Qualified)
          /\ NamesOf(summary) = NamesOf(detailed_df)
          /\ InsightNames \subseteq NamesOf(detailed_df)
          /\ \A n \in 1..Len(detailed_df) :
                /\ detailed_df[n].AktiveKunden >= 50
                /\ detailed_df[n].Rang
                     = 1 + Cardinality({i \in Qualified :
                              sellers[i].PerformanceScore > detailed_df[n].PerformanceScore})
    /\ sales_pc = "empty" =>
          /\ Qualified = {}
          /\ detailed_df = << >>
          /\ summary = << >>
          /\ insights = EmptyInsights

\* a ranking of a salesperson with exactly 50 and one with 51 active
\* customers, in a dataset where a salesperson with 49 has the best score
C20_Witness ==
    /\ sales_pc = "ranked"
    /\ \E a, b, c \in 1..Len(sellers) :
        /\ sellers[a].AktiveKunden = 49
        /\ sellers[b].AktiveKunden = 50
        /\ sellers[c].AktiveKunden = 51
        /\ sellers[a].PerformanceScore > sellers[b].PerformanceScore
        /\ sellers[b].PerformanceScore > sellers[c].PerformanceScore
        /\ sellers[b].Verkaeufer \in NamesOf(detailed_df)
        /\ sellers[a].Verkaeufer \notin NamesOf(detailed_df)

\* nobody reaches the threshold: the early return
C20_WitnessEmpty ==
    /\ sales_pc = "empty"
    /\ Len(sellers) > 1
    /\ insights = EmptyInsights

(***************************************************************************)
(* Sales slicing                                                           *)
(***************************************************************************)
SalesDone == pc \in {"monthly", "done", "rates_done"} /\ SalesColumn \in columns

\* the rows of a salesperson in a group
SliceRows(v, group) ==
    {i \in 1..Len(df) : Verkaeufer(df[i]) = v /\ df[i].ProductGroup = group}

\* the customers behind the lost count of a slice
CountedLost(v, group) ==
    {df[i].Kundennummer :
        i \in {j \in SliceRows(v, group) :
                 ~isna(df[j].Ende) /\ df[j].Ende >= YearStart(YearOf(today))}}

\* a true-churn event of the customer in the group dated in the current-year
\* window, Jan 1 to today
HasChurnInWindow(k, group) ==
    \E n \in 1..Len(churn_events) :
        /\ churn_events[n].Kundennummer = k
        /\ churn_events[n].ProductGroup = group
        /\ churn_events[n].ChurnDatum >= YearStart(YearOf(today))
        /\ churn_events[n].ChurnDatum <= today

\* C21: sales slicing counts as the aggregators do. In every row of the
\* sales table the lost count is the number of customers of the slice that
\* were counted as lost, and a non-reseller customer is among them only if a
\* true-churn event of that customer in the group is dated in the
\* current-year window (Jan 1 to today): a reactivated end and an end after
\* today make no lost customer.
C21_SalesCountsTrueChurn ==
    SalesDone =>
        \A n \in 1..Len(sales_performance) :
            LET v == sales_performance[n].Verkaeufer
                group == sales_performance[n].Produktgruppe
            IN  /\ sales_performance[n].VerloreneKunden = Cardinality(CountedLost(v, group))
                /\ \A k \in CountedLost(v, group) :
                      k \notin RESELLER_CUSTOMERS => HasChurnInWindow(k, group)

(***************************************************************************)
(* Purity of the aggregation steps                                         *)
(***************************************************************************)
AggregatorStages == {"yearly", "current_year", "waterfall", "sales"}

\* a step of an aggregator leaves its three inputs as they are
InputsUnchanged ==
    pc \in AggregatorStages =>
        /\ df' = df
        /\ churn_events' = churn_events
        /\ reactivations' = reactivations

\* C22: aggregation steps are pure. A step of calculate_yearly_churn,
\* calculate_current_year_churn, calculate_waterfall_data or
\* analyze_sales_performance leaves the dataset (its rows and its columns),
\* the churn events and the reactivation events unchanged.
C22_AggregatorsPure == [][InputsUnchanged]_vars

(***************************************************************************)
(* Runs without true-churn events                                          *)
(***************************************************************************)
\* C23: a run without true-churn events completes normally. When the
\* journey analysis of a table with rows has returned no churn event, no
\* aggregator raises, and the yearly rows report 0 churned regular customers.
C23_NoChurnCompletes ==
    (JourneyDone /\ Len(df) > 0 /\ churn_events = << >>) =>
        /\ pc # "failed"
        /\ error = "none"
        /\ \A n \in 1..Len(yearly_churn) : yearly_churn[n].ChurnedKunden = 0

(***************************************************************************)
(* The waterfall's ending count and inflow                                 *)
(***************************************************************************)
\* C24: the waterfall's ending count is never negative. In every row the
\* losses do not exceed Start + Neukunden, so Ende >= 0.
C24_WaterfallEndNonNegative ==
    \A n \in 1..Len(waterfall_data) :
        /\ waterfall_data[n].Ende >= 0
        /\ -waterfall_data[n].Verluste
              <= waterfall_data[n].Start + waterfall_data[n].Neukunden

\* the customers of a group with a contract active at Jan 1 of the year
StartSet(group, year) ==
    {df[i].Kundennummer :
        i \in {j \in 1..Len(df) :
                 df[j].ProductGroup = group /\ IsActiveAt(df[j], DayNumber(year, 1, 1))}}

\* the customers of a group with a contract starting inside the window
NewSet(group, year) ==
    {df[i].Kundennummer :
        i \in {j \in 1..Len(df) :
                 df[j].ProductGroup = group /\ InWindow(df[j].Beginn, year)}}

\* C25: no customer is counted twice on the inflow side of the waterfall.
\* For the year of the waterfall, in every row Start and Neukunden count
\* the customers active at Jan 1 and the customers with a contract starting
\* in the window, the two sets are disjoint, and Start + Neukunden is the
\* number of customers in either.
C25_InflowDisjoint ==
    Len(waterfall_data) > 0 =>
        \E year \in start_year..YearOf(today) :
            \A n \in 1..Len(waterfall_data) :
                LET group == waterfall_data[n].Gruppe
                IN  /\ waterfall_data[n].Start = Cardinality(StartSet(group, year))
                    /\ waterfall_data[n].Neukunden = Cardinality(NewSet(group, year))
                    /\ StartSet(group, year) \cap NewSet(group, year) = {}
                    /\ waterfall_data[n].Start + waterfall_data[n].Neukunden
                          = Cardinality(StartSet(group, year) \cup NewSet(group, year))

(***************************************************************************)
(* Well-formed reactivation events                                         *)
(***************************************************************************)
\* C26: every reactivation event is well-formed. Its new start is strictly
\* after its end, its gap is new start minus end and lies in
\* 1..grace_period_days, and the new start is the start date of a contract
\* of the same customer and group other than the contract that ended.
C26_ReactivationWellFormed ==
    \A n \in 1..Len(reactivations) :
        LET e == reactivations[n]
        IN  /\ ~isna(e.Ende) /\ ~isna(e.NeuerBeginn)
            /\ e.NeuerBeginn > e.Ende
            /\ e.Luecke_Tage = e.NeuerBeginn - e.Ende
            /\ 1 <= e.Luecke_Tage /\ e.Luecke_Tage <= grace_period_days
            /\ e.Kundennummer \notin RESELLER_CUSTOMERS
            /\ \E i, j \in 1..Len(df) :
                  /\ i # j
                  /\ df[i].Kundennummer = e.Kundennummer /\ df[i].ProductGroup = e.ProductGroup
                  /\ df[j].Kundennummer = e.Kundennummer /\ df[j].ProductGroup = e.ProductGroup
                  /\ df[i].Ende = e.Ende
                  /\ df[j].Beginn = e.NeuerBeginn

\* a reactivation with a gap of exactly the grace period, in a partition
\* that also has a contract starting on the end date itself
C26_Witness ==
    /\ JourneyDone
    /\ grace_period_days = 1
    /\ \E n \in 1..Len(reactivations) :
          /\ reactivations[n].Luecke_Tage = 1
          /\ \E i \in 1..Len(df) :
                /\ df[i].Kundennummer = reactivations[n].Kundennummer
                /\ df[i].ProductGroup = reactivations[n].ProductGroup
                /\ df[i].Beginn = reactivations[n].Ende

(***************************************************************************)
(* Tie-break independence                                                  *)
(***************************************************************************)
\* the tables with the rows of d in another order
Orders(d) ==
    {[i \in 1..Len(d) |-> d[f[i]]] :
        f \in {g \in [1..Len(d) -> 1..Len(d)] :
                 \A i, j \in 1..Len(d) : i # j => g[i] # g[j]}}

\* two event lists hold the same events the same number of times
SameEvents(a, b) ==
    /\ Len(a) = Len(b)
    /\ \A i \in 1..Len(a) :
          Cardinality({j \in 1..Len(a) : a[j] = a[i]})
            = Cardinality({j \in 1..Len(b) : b[j] = a[i]})

\* the events of one partition
OfKey(events, key) ==
    SelectSeq(events, LAMBDA e : e.Kundennummer = key[1] /\ e.ProductGroup = key[2])

\* the verdicts when follow-ons are the contracts of the partition whose
\* start date is strictly after the end date, wherever they are sorted
VerdictsByDate(d, grace) ==
    LET s == SortValues(DropResellers(d))
        verdict(p) ==
            LET future == {q \in 1..Len(s) :
                              SameKey(s[q], s[p]) /\ DateGt(s[q].Beginn, s[p].Ende)}
                next_start == SetMin({s[q].Beginn : q \in future})
                base == [Kundennummer |-> s[p].Kundennummer,
                         ProductGroup |-> s[p].ProductGroup,
                         Ende |-> s[p].Ende, NeuerBeginn |-> NaT, Luecke_Tage |-> 0]
            IN  IF isna(s[p].Ende) THEN base @@ [Typ |-> TypNone]
                ELSE IF future = {} THEN base @@ [Typ |-> TypNoFollowOn]
                ELSE IF next_start - s[p].Ende <= grace
                     THEN [base EXCEPT !.NeuerBeginn = next_start,
                                       !.Luecke_Tage = next_start - s[p].Ende]
                            @@ [Typ |-> TypReactivation]
                     ELSE base @@ [Typ |-> TypLongGap]
    IN  [p \in 1..Len(s) |-> verdict(p)]

ChurnEventsByDate(d, grace) ==
    MapSeq(SelectSeq(VerdictsByDate(d, grace),
                     LAMBDA v : v.Typ \in {TypLongGap, TypNoFollowOn}),
           ChurnRecord)

ReactivationsByDate(d, grace) ==
    MapSeq(SelectSeq(VerdictsByDate(d, grace), LAMBDA v : v.Typ = TypReactivation),
           ReactivationRecord)

\* no contract of the partition ends before its own start
EndsNotBeforeStart(key) ==
    \A i \in 1..Len(df) :
        (df[i].Kundennummer = key[1] /\ df[i].ProductGroup = key[2]) =>
            (isna(df[i].Ende) \/ ~DateLt(df[i].Ende, df[i].Beginn))

\* every contract of the partition has a start date
StartsParsed(key) ==
    \A i \in 1..Len(df) :
        (df[i].Kundennummer = key[1] /\ df[i].ProductGroup = key[2]) => ~isna(df[i].Beginn)

\* the events of the partition are those of every order of the table and
\* those of the selection by date alone
TieBreakIndependent(key) ==
    /\ \A d \in Orders(df) :
          /\ SameEvents(OfKey(churn_events, key),
                        OfKey(JourneyChurnEvents(d, grace_period_days), key))
          /\ SameEvents(OfKey(reactivations, key),
                        OfKey(JourneyReactivations(d, grace_period_days), key))
    /\ SameEvents(OfKey(churn_events, key),
                  OfKey(ChurnEventsByDate(df, grace_period_days), key))
    /\ SameEvents(OfKey(reactivations, key),
                  OfKey(ReactivationsByDate(df, grace_period_days), key))

\* C27: tie-break independence. For every partition in which each
\* contract's end date is null or not before its own start date, the churn
\* and reactivation events are the same, with multiplicity, for every order
\* of the contracts in the table, and the same as when follow-ons are chosen
\* by start date strictly after the end date alone.
C27_TieBreakIndependence ==
    JourneyDone =>
        \A key \in RegularKeys : EndsNotBeforeStart(key) => TieBreakIndependent(key)

\* the same for the partitions whose contracts all have a start date
C27_ParsedTieBreakIndependent ==
    JourneyDone =>
        \A key \in RegularKeys :
            (EndsNotBeforeStart(key) /\ StartsParsed(key)) => TieBreakIndependent(key)

(***************************************************************************)
(* Churn events and running contracts                                      *)
(***************************************************************************)
\* a contract of the customer in the group that started on or before E and
\* is open or ends after E
UnderContractAt(k, group, E) ==
    \E i \in 1..Len(df) :
        /\ df[i].Kundennummer = k /\ df[i].ProductGroup = group
        /\ DateLe(df[i].Beginn, E)
        /\ (isna(df[i].Ende) \/ DateGt(df[i].Ende, E))

\* C28: no true-churn event is emitted for a customer who is still under
\* contract. For every churn event of (customer, group) dated E the customer
\* has no contract in the group that started on or before E and is still
\* open or ends after E.
C28_NoChurnUnderContract ==
    \A n \in 1..Len(churn_events) :
        ~UnderContractAt(churn_events[n].Kundennummer, churn_events[n].ProductGroup,
                         churn_events[n].ChurnDatum)

(***************************************************************************)
(* The reactivation quote                                                  *)
(***************************************************************************)
\* the customers with a contract assigned to the salesperson
CustomersOf(v) ==
    {df[i].Kundennummer : i \in {j \in 1..Len(df) : Verkaeufer(df[j]) = v}}

\* those of them that appear in a reactivation event
ReactivatedOf(v) ==
    {k \in CustomersOf(v) : \E n \in 1..Len(reactivations) : reactivations[n].Kundennummer = k}

\* the customers with an ended contract assigned to the salesperson
EndedOf(v) ==
    {df[i].Kundennummer :
        i \in {j \in 1..Len(df) : Verkaeufer(df[j]) = v /\ df[j].Ende # NaT}}

\* C29: the reactivation quote of a salesperson lies in [0, 100]. The
\* salesperson's customers in reactivation events are never more than the
\* salesperson's customers with an ended contract assigned to that
\* salesperson, and the quote is 0.0 without reactivation events or without
\* ended contracts.
C29_ReactivationQuoteBounded ==
    pc = "rates_done" =>
        \A n \in 1..Len(reactivation_rates) :
            LET v == reactivation_rates[n].Verkaeufer
                quote == reactivation_rates[n].Reaktivierungsquote
            IN  /\ 0 <= quote /\ quote <= 1000
                /\ Cardinality(ReactivatedOf(v)) <= Cardinality(EndedOf(v))
                /\ (Len(reactivations) = 0 \/ EndedOf(v) = {}) => quote = 0

\* the quote alone: between 0.0 and 100.0
C29_QuoteInRange ==
    \A n \in 1..Len(reactivation_rates) :
        reactivation_rates[n].Reaktivierungsquote \in 0..1000

(***************************************************************************)
(* Monotonicity in the grace period                                        *)
(***************************************************************************)
\* every event of a occurs in b at least as often
SubEvents(a, b) ==
    \A i \in 1..Len(a) :
        Cardinality({j \in 1..Len(a) : a[j] = a[i]})
          <= Cardinality({j \in 1..Len(b) : b[j] = a[i]})

NoFollowOnEvents(events) == SelectSeq(events, LAMBDA c : c.Typ = TypNoFollowOn)

\* the events of the table under the grace period g2 against those of the
\* run
MonotoneUpTo(g2) ==
    LET churn2 == JourneyChurnEvents(df, g2)
        react2 == JourneyReactivations(df, g2)
    IN  /\ SubEvents(reactivations, react2)
        /\ SameEvents(NoFollowOnEvents(churn_events), NoFollowOnEvents(churn2))
        /\ SubEvents(churn2, churn_events)
        /\ Len(churn_events) + Len(reactivations) = Len(churn2) + Len(react2)

\* C30: monotonicity in the grace period. For the grace period g1 of the
\* run and every g2 >= g1, every reactivation under g1 is a reactivation
\* under g2, the no-follow-on churn events are the same, the churn events
\* under g2 are among those under g1, and the number of events is the same.
C30_GraceMonotone ==
    JourneyDone =>
        \A g2 \in grace_period_days..(MaxGrace + 1) : MonotoneUpTo(g2)

\* a run with grace period 0 on a table with an end followed after one day
\* (churn under 0, reactivation under 1) and an end without follow-on
C30_Witness ==
    /\ JourneyDone
    /\ grace_period_days = 0
    /\ \E n \in 1..Len(churn_events) : churn_events[n].Typ = TypLongGap
    /\ \E n \in 1..Len(churn_events) : churn_events[n].Typ = TypNoFollowOn
    /\ Len(JourneyReactivations(df, 1)) > 0
    /\ Len(JourneyChurnEvents(df, 1)) < Len(churn_events)
====
